---- MODULE Spec2Model ----
(***************************************************************************)
(* A model of the option-lock crate: the OptionLock state byte and slot,   *)
(* its guards (OptionGuard, MutexGuard, OptionGuardArc, MutexGuardArc),    *)
(* and the Mutex and OnceCell wrappers built on it.                        *)
(*                                                                         *)
(* One lock object is shared by NumThreads callers.  Every atomic          *)
(* operation on the state byte is one step; accesses to the slot are made  *)
(* by the guard holder.  `kind` says which wrapper type owns the lock.     *)
(***************************************************************************)
EXTENDS Integers, FiniteSets, Sequences, TLC

\* ---------------------------------------------------------------- bounds
NumThreads == 2
MaxVal == 2
MaxInits == 2

Threads == 1..NumThreads
Values == 1..MaxVal

\* ------------------------------------------------------- State (lock.rs)
FREE == 1
SOME == 2
LOCKED_EMPTY == 0
Uninit == 0

RECURSIVE BitAnd(_, _)
BitAnd(a, b) ==
    IF a = 0 \/ b = 0 THEN 0
    ELSE (a % 2) * (b % 2) + 2 * BitAnd(a \div 2, b \div 2)

RECURSIVE BitOr(_, _)
BitOr(a, b) ==
    IF a = 0 THEN b
    ELSE IF b = 0 THEN a
    ELSE (IF a % 2 = 1 \/ b % 2 = 1 THEN 1 ELSE 0) + 2 * BitOr(a \div 2, b \div 2)

\* !x on a u8
BitNot(a) == 255 - a

AVAILABLE == BitOr(FREE, SOME)

\* AtomicU8::fetch_and: the byte left in memory
fetch_and(s, mask) == BitAnd(s, mask)

\* AtomicU8::compare_exchange (strong): Ok(previous) and the new byte stored,
\* or Err(previous) with the byte unchanged
compare_exchange(s, current, new) ==
    [ok |-> s = current, prev |-> s, next |-> IF s = current THEN new ELSE s]

\* an is_locked that only recognises the locked empty byte
is_locked_empty(s) == s = LOCKED_EMPTY

\* OptionLock::is_some, is_locked, is_some_unlocked, is_none_unlocked on a byte
is_some(s) == BitAnd(s, SOME) # 0
is_locked(s) == BitAnd(s, FREE) = 0
is_some_unlocked(s) == s = AVAILABLE
is_none_unlocked(s) == s = FREE

\* ------------------------------------------------------------ variables
VARIABLES
    kind,       \* "OptionLock" | "Mutex" | "OnceCell": the type owning the lock
    alive,      \* FALSE once the owner consumed the object (into_inner)
    state,      \* the AtomicU8 state byte
    slot,       \* the MaybeUninit<T> slot: Uninit or the live value
    pc,         \* each caller's position
    op,         \* the call a caller is in, or has just returned from
    guard,      \* the guard a caller holds: "none" or the guard's type
    filled,     \* the held guard's is_some / filled flag
    res,        \* the result of the call that has just returned
    val,        \* the value carried by that result (Uninit: none)
    arg,        \* the value passed to the call that has just returned
    seen,       \* the byte a held, unmodified guard's claim replaced (-1: n/a)
    initCount,  \* OnceCell: initializers run so far
    initBy,     \* OnceCell: the caller whose initializer ran last (0: none)
    filledBy,   \* OnceCell: how the cell got its value
    extracted,  \* Mutex: a guard's extract consumed the value and was released
    incremented, \* the callers that have added one to the value under a guard
    initFailed, \* OnceCell: some caller's fallible initializer returned an error
    init,       \* Lazy: the init cell still holds the initializer
    round,      \* hand-off: the values produced so far
    synced,     \* the callers that every access to the slot so far happens-before
    published   \* an acquire read of the state byte now gives that ordering

vars == <<kind, alive, state, slot, pc, op, guard, filled, res, val, arg, seen,
          initCount, initBy, filledBy, extracted, incremented, initFailed, init, round,
          synced, published>>

\* bookkeeping, and the Lazy's init cell, which no lock operation touches
book == <<initCount, initBy, filledBy, extracted, incremented, initFailed, init, round>>

\* the bookkeeping together with the happens-before record, which only the
\* steps that follow the memory orderings keep
ghost == <<book, synced, published>>

NoSeen == 0 - 1

\* the initializer closure each get_or_init caller passes: distinct per caller
InitVal(t) == t

TypeOK ==
    /\ kind \in {"OptionLock", "Mutex", "OnceCell", "Lazy"}
    /\ alive \in BOOLEAN
    /\ state \in 0..3
    /\ slot \in 0..(MaxVal + NumThreads)
    /\ pc \in [Threads -> STRING]
    /\ guard \in [Threads -> {"none", "OptionGuard", "MutexGuard",
                              "OptionGuardArc", "MutexGuardArc"}]
    /\ filled \in [Threads -> BOOLEAN]
    /\ val \in [Threads -> 0..(MaxVal + NumThreads)]
    /\ arg \in [Threads -> {Uninit} \cup Values]
    /\ seen \in [Threads -> {NoSeen} \cup 0..3]
    /\ initCount \in 0..MaxInits
    /\ initBy \in {0} \cup Threads
    /\ filledBy \in {"none", "new", "set", "init"}
    /\ extracted \in BOOLEAN
    /\ incremented \subseteq Threads
    /\ initFailed \in BOOLEAN
    /\ init \in BOOLEAN
    /\ round \in 0..NumThreads
    /\ synced \subseteq Threads
    /\ published \in BOOLEAN

\* OptionLock::empty / OptionLock::new, Mutex::new, OnceCell::empty / OnceCell::new,
\* Lazy::new
Init ==
    /\ kind \in {"OptionLock", "Mutex", "OnceCell", "Lazy"}
    /\ alive = TRUE
    /\ init = (kind = "Lazy")
    /\ round = 0
    /\ synced = Threads
    /\ published = TRUE
    /\ \/ /\ kind \in {"OptionLock", "OnceCell", "Lazy"}
          /\ state = FREE
          /\ slot = Uninit
          /\ filledBy = "none"
       \/ /\ kind # "Lazy"
          /\ \E v \in Values : slot = v
          /\ state = AVAILABLE
          /\ filledBy = "new"
    /\ pc = [t \in Threads |-> "idle"]
    /\ op = [t \in Threads |-> "none"]
    /\ guard = [t \in Threads |-> "none"]
    /\ filled = [t \in Threads |-> FALSE]
    /\ res = [t \in Threads |-> "none"]
    /\ val = [t \in Threads |-> Uninit]
    /\ arg = [t \in Threads |-> Uninit]
    /\ seen = [t \in Threads |-> NoSeen]
    /\ initCount = 0
    /\ initBy = 0
    /\ extracted = FALSE
    /\ incremented = {}
    /\ initFailed = FALSE

\* ------------------------------------------------------ step bookkeeping
\* caller t moves to position p of call o, which was passed a, with result r
\* carrying value v
StepArg(t, p, o, r, v, a) ==
    /\ pc' = [pc EXCEPT ![t] = p]
    /\ op' = [op EXCEPT ![t] = o]
    /\ res' = [res EXCEPT ![t] = r]
    /\ val' = [val EXCEPT ![t] = v]
    /\ arg' = [arg EXCEPT ![t] = a]

Step(t, p, o, r, v) == StepArg(t, p, o, r, v, Uninit)

\* call o returns r carrying v
Ret(t, o, r, v) == Step(t, "done", o, r, v)

\* caller t now holds guard g with fill flag f, claimed from byte s
Hold(t, g, f, s) ==
    /\ guard' = [guard EXCEPT ![t] = g]
    /\ filled' = [filled EXCEPT ![t] = f]
    /\ seen' = [seen EXCEPT ![t] = s]

NoHold == UNCHANGED <<guard, filled, seen>>

\* No call has a result pending.  A call's return point ("done") only marks the
\* instant of return for the properties below: the caller takes the result
\* (Return) before anybody else moves, which loses no interleaving of the code.
Quiet == \A u \in DOMAIN pc : pc[u] # "done"

\* caller t is at position p
At(t, p) == Quiet /\ pc[t] = p

\* a caller may begin a call: the object exists and the caller is between calls
CanCall(t, k) == alive /\ kind \in k /\ At(t, "idle")

\* position of a spin variant's retry
Retrying(t, o) == At(t, "spin_try") /\ op[t] = o

\* the caller has the whole structure to itself (&mut self / self): nobody is
\* inside a call and no guard is outstanding
Exclusive(t, k) ==
    /\ CanCall(t, k)
    /\ \A u \in Threads : guard[u] = "none" /\ pc[u] = "idle"

\* ------------------------------------------------- OptionLock (lock.rs)
\* try_lock with the test of the unlocked bit inverted
try_lock_ok_locked(prev) == BitAnd(prev, FREE) = 0

\* try_lock that takes the lock whatever the byte was
try_lock_ok_always(prev) == TRUE

\* try_lock that seeds the guard as empty whatever the byte was
try_lock_is_some_never(prev) == FALSE

\* a try_lock that stores the locked-and-empty byte instead of clearing one bit
try_lock_store_zero(prev) == LOCKED_EMPTY

\* try_lock: the outcome read off the byte fetch_and returned
try_lock_ok(prev) == BitAnd(prev, FREE) # 0
try_lock_is_some(prev) == BitAnd(prev, SOME) # 0
try_lock_store(prev) == fetch_and(prev, BitNot(FREE))

\* try_lock under call name o; on success the caller goes on at okpc
do_try_lock(t, o, okpc, failpc) ==
    /\ state' = try_lock_store(state)
    /\ IF try_lock_ok(state)
       THEN /\ Hold(t, "OptionGuard", try_lock_is_some(state), state)
            /\ Step(t, okpc, o, "Ok", Uninit)
       ELSE /\ NoHold
            /\ Step(t, failpc, o, "Unavailable", Uninit)
    /\ UNCHANGED <<kind, alive, slot, ghost>>

try_lock(t) ==
    /\ CanCall(t, {"OptionLock"})
    /\ do_try_lock(t, "try_lock", "done", "done")

try_lock_arc(t) ==
    /\ CanCall(t, {"OptionLock"})
    /\ do_try_lock(t, "try_lock_arc", "arc_new", "done")

\* a try_get that claims the lock without comparing the byte
try_get_cas_blind(s) == [ok |-> TRUE, prev |-> s, next |-> SOME]

\* try_get that reports every failure as contention
try_get_res_unavailable(c) == IF c.ok THEN "Ok" ELSE "Unavailable"

\* try_get: compare_exchange(AVAILABLE, SOME) and its error mapping
try_get_cas(s) == compare_exchange(s, AVAILABLE, SOME)
try_get_res(c) ==
    IF c.ok THEN "Ok"
    ELSE IF c.prev = FREE THEN "FillState" ELSE "Unavailable"

do_try_get(t, o, okpc, failpc) ==
    LET c == try_get_cas(state) IN
    /\ state' = c.next
    /\ IF c.ok
       THEN /\ Hold(t, "MutexGuard", TRUE, state)
            /\ Step(t, okpc, o, "Ok", Uninit)
       ELSE /\ NoHold
            /\ Step(t, failpc, o, try_get_res(c), Uninit)
    /\ UNCHANGED <<kind, alive, slot, ghost>>

try_get(t) ==
    /\ CanCall(t, {"OptionLock"})
    /\ do_try_get(t, "try_get", "done", "done")

try_get_arc(t) ==
    /\ CanCall(t, {"OptionLock"})
    /\ do_try_get(t, "try_get_arc", "arc_new", "done")

\* try_take: try_get().map(MutexGuard::extract)
try_take(t) ==
    /\ CanCall(t, {"OptionLock"})
    /\ do_try_get(t, "try_take", "extract", "done")

\* try_clone: self.try_get().map(|g| (*g).clone())
try_clone(t) ==
    /\ CanCall(t, {"OptionLock"})
    /\ do_try_get(t, "try_clone", "clone", "done")

\* try_copy: self.try_get().map(|g| *g)
try_copy(t) ==
    /\ CanCall(t, {"OptionLock"})
    /\ do_try_get(t, "try_copy", "clone", "done")

\* the closure of try_clone / try_copy (OptionLock's and Mutex's): the value is
\* read through the guard,
\* which is dropped when the closure returns
MutexGuard_clone(t) ==
    /\ At(t, "clone")
    /\ guard[t] = "MutexGuard"
    /\ Step(t, "release", op[t], "Ok", slot)
    /\ UNCHANGED <<kind, alive, state, slot, guard, filled, seen, ghost>>

\* try_lock_none that swaps the byte in without comparing
try_lock_none_swap(s) == [ok |-> TRUE, prev |-> s, next |-> LOCKED_EMPTY]

\* try_lock_none that reports every failure as a fill-state error
try_lock_none_res_fillstate(c) == IF c.ok THEN "Ok" ELSE "FillState"

\* try_lock_none that reports every failure as contention
try_lock_none_res_unavailable(c) == IF c.ok THEN "Ok" ELSE "Unavailable"

\* try_lock_none that claims the empty lock with the locked-and-filled byte
try_lock_none_cas_some(s) == compare_exchange(s, FREE, SOME)

\* try_lock_none that claims a filled lock instead of an empty one
try_lock_none_cas_filled(s) == compare_exchange(s, AVAILABLE, LOCKED_EMPTY)

\* try_lock_none: compare_exchange(FREE, 0) and its error mapping
try_lock_none_cas(s) == compare_exchange(s, FREE, LOCKED_EMPTY)
try_lock_none_res(c) ==
    IF c.ok THEN "Ok"
    ELSE IF c.prev = AVAILABLE THEN "FillState" ELSE "Unavailable"

do_try_lock_none(t, o, okpc, fillpc, failpc) ==
    LET c == try_lock_none_cas(state) IN
    /\ state' = c.next
    /\ IF c.ok
       THEN /\ Hold(t, "OptionGuard", FALSE, state)
            /\ Step(t, okpc, o, "Ok", Uninit)
       ELSE /\ NoHold
            /\ Step(t, IF try_lock_none_res(c) = "FillState" THEN fillpc ELSE failpc,
                    o, try_lock_none_res(c), Uninit)
    /\ UNCHANGED <<kind, alive, slot, ghost>>

try_lock_none(t) ==
    /\ CanCall(t, {"OptionLock"})
    /\ do_try_lock_none(t, "try_lock_none", "done", "done", "done")

try_lock_empty_arc(t) ==
    /\ CanCall(t, {"OptionLock"})
    /\ do_try_lock_none(t, "try_lock_empty_arc", "arc_new", "done", "done")

\* try_fill that claims a filled lock instead of an empty one
try_fill_cas_filled(s) == compare_exchange(s, AVAILABLE, LOCKED_EMPTY)

\* try_fill that claims the lock whatever the byte was
try_fill_cas_any(s) == compare_exchange(s, s, LOCKED_EMPTY)

\* try_fill: one compare_exchange(FREE, 0); Err hands the value back
try_fill_cas(s) == compare_exchange(s, FREE, LOCKED_EMPTY)

do_try_fill(t, o, v) ==
    LET c == try_fill_cas(state) IN
    /\ state' = c.next
    /\ IF c.ok
       THEN /\ Hold(t, "OptionGuard", FALSE, state)
            /\ Step(t, "fill", o, "Ok", v)
       ELSE /\ NoHold
            /\ Ret(t, o, "Err", v)
    /\ UNCHANGED <<kind, alive, slot, ghost>>

try_fill(t) ==
    /\ CanCall(t, {"OptionLock"})
    /\ \E v \in Values : do_try_fill(t, "try_fill", v)

\* try_fill_with: self.try_lock_none()?.replace(f())
try_fill_with(t) ==
    /\ CanCall(t, {"OptionLock"})
    /\ do_try_lock_none(t, "try_fill_with", "fill_with", "done", "done")

\* the wait condition of each spin variant's inner while loop
spin_waits(o, s) ==
    CASE o \in {"spin_lock", "Mutex_spin_lock"} -> is_locked(s)
      [] o \in {"spin_get", "spin_take"} -> ~is_some_unlocked(s)
      [] o = "spin_lock_none" -> ~is_none_unlocked(s)
      [] OTHER -> FALSE

\* spin_get, spin_lock, spin_lock_none, spin_take: the try at the top of the loop
spin_get(t) ==
    /\ CanCall(t, {"OptionLock"}) \/ Retrying(t, "spin_get")
    /\ do_try_get(t, "spin_get", "done", "spin_wait")

spin_lock(t) ==
    /\ CanCall(t, {"OptionLock"}) \/ Retrying(t, "spin_lock")
    /\ do_try_lock(t, "spin_lock", "done", "spin_wait")

spin_lock_none(t) ==
    /\ CanCall(t, {"OptionLock"}) \/ Retrying(t, "spin_lock_none")
    /\ do_try_lock_none(t, "spin_lock_none", "done", "spin_wait", "spin_wait")

spin_take(t) ==
    /\ CanCall(t, {"OptionLock"}) \/ Retrying(t, "spin_take")
    /\ do_try_get(t, "spin_take", "extract", "spin_wait")

\* the inner while loop of a spin variant: one relaxed load of the byte
spin_wait(t) ==
    /\ At(t, "spin_wait")
    /\ pc' = [pc EXCEPT ![t] = IF spin_waits(op[t], state) THEN "spin_loop" ELSE "spin_try"]
    /\ UNCHANGED <<kind, alive, state, slot, op, res, val, arg, guard, filled, seen, ghost>>

\* core::hint::spin_loop(), the body of the while loop
spin_loop(t) ==
    /\ At(t, "spin_loop")
    /\ pc' = [pc EXCEPT ![t] = "spin_wait"]
    /\ UNCHANGED <<kind, alive, state, slot, op, res, val, arg, guard, filled, seen, ghost>>

\* the replace(value) of try_fill, on the guard it has just made
try_fill_replace(t) ==
    /\ At(t, "fill")
    /\ slot' = val[t]
    /\ filled' = [filled EXCEPT ![t] = TRUE]
    /\ seen' = [seen EXCEPT ![t] = NoSeen]
    /\ Step(t, "release", op[t], "Ok", Uninit)
    /\ filledBy' = IF kind = "OnceCell" THEN "set" ELSE filledBy
    /\ UNCHANGED <<kind, alive, state, guard, initCount, initBy, extracted, incremented,
                   initFailed, init, round,
                   synced, published>>

\* the replace(f()) of try_fill_with: the initializer runs with the lock held
try_fill_with_replace(t) ==
    /\ At(t, "fill_with")
    /\ \E v \in Values : slot' = v
    /\ filled' = [filled EXCEPT ![t] = TRUE]
    /\ seen' = [seen EXCEPT ![t] = NoSeen]
    /\ Step(t, "release", op[t], "Ok", Uninit)
    /\ UNCHANGED <<kind, alive, state, guard, ghost>>

\* a destructor that never looks into the slot
is_some_mut_never(s) == FALSE

\* State::is_some_mut: the SOME bit, read through &mut
is_some_mut(s) == BitAnd(s, SOME) # 0

\* what an unchecked read of the slot (as_mut_ptr().read(), &mut *as_mut_ptr(),
\* drop_in_place) finds: the live value, or, when the value has been moved out,
\* whatever the dead bytes are taken for
slot_read(s) == IF s # Uninit THEN {s} ELSE Values

\* AtomicU8::fetch_or: the byte left in memory
fetch_or(s, mask) == BitOr(s, mask)

\* impl Drop for OptionLock, also run as the drop of the lock inside a Mutex,
\* a OnceCell or a Lazy: if self.state.is_some_mut() { drop_in_place(slot) }
OptionLock_drop(t) ==
    /\ Exclusive(t, {"OptionLock", "Mutex", "OnceCell", "Lazy"})
    /\ alive' = FALSE
    /\ IF is_some_mut(state)
       THEN /\ \E v \in slot_read(slot) : Ret(t, "drop_lock", "Dropped", v)
            /\ slot' = Uninit
       ELSE /\ Ret(t, "drop_lock", "None", Uninit)
            /\ UNCHANGED slot
    /\ UNCHANGED <<kind, state, guard, filled, seen, ghost>>

\* OptionLock::into_inner (OnceCell::into_inner calls it): the value is read out
\* of a ManuallyDrop, or self is dropped while empty
OptionLock_into_inner(t) ==
    /\ Exclusive(t, {"OptionLock", "OnceCell"})
    /\ alive' = FALSE
    /\ IF is_some_mut(state)
       THEN /\ \E v \in slot_read(slot) : Ret(t, "into_inner", "Some", v)
            /\ slot' = Uninit
       ELSE /\ Ret(t, "into_inner", "None", Uninit)
            /\ UNCHANGED slot
    /\ UNCHANGED <<kind, state, guard, filled, seen, ghost>>

\* OptionLock::get_mut: if self.is_some() { Some(&mut *self.as_mut_ptr()) }
OptionLock_get_mut(t) ==
    /\ Exclusive(t, {"OptionLock"})
    /\ IF is_some(state)
       THEN \E v \in slot_read(slot) : Ret(t, "get_mut", "Some", v)
       ELSE Ret(t, "get_mut", "None", Uninit)
    /\ UNCHANGED <<kind, alive, state, slot, guard, filled, seen, ghost>>

\* OptionLock::replace on an owned lock: the old value is read out if the SOME
\* bit is set, else the bit is set; then the new value is written
OptionLock_replace(t) ==
    /\ Exclusive(t, {"OptionLock"})
    /\ \E v \in Values :
        /\ slot' = v
        /\ IF is_some(state)
           THEN /\ \E w \in slot_read(slot) : StepArg(t, "done", "owned_replace", "Some", w, v)
                /\ UNCHANGED state
           ELSE /\ state' = fetch_or(state, SOME)
                /\ StepArg(t, "done", "owned_replace", "None", Uninit, v)
    /\ UNCHANGED <<kind, alive, guard, filled, seen, ghost>>

\* OptionLock::take on an owned lock: if the SOME bit is set it is cleared and
\* the value is read out
OptionLock_take(t) ==
    /\ Exclusive(t, {"OptionLock"})
    /\ IF is_some(state)
       THEN /\ state' = fetch_and(state, BitNot(SOME))
            /\ \E v \in slot_read(slot) : Ret(t, "owned_take", "Some", v)
            /\ slot' = Uninit
       ELSE /\ Ret(t, "owned_take", "None", Uninit)
            /\ UNCHANGED <<state, slot>>
    /\ UNCHANGED <<kind, alive, guard, filled, seen, ghost>>

\* ------------------------------------------------ OptionGuard (lock.rs)
Holding(t, g) == At(t, "held") /\ guard[t] = g

\* the Option a guard method returns: Some(v), or None
Option(some, v) == IF some THEN "Some" ELSE "None"

\* a replace that writes the value into an empty guard's slot without setting
\* the guard's flag
replace_unflagged(f, s, v) ==
    [is_some |-> f, slot |-> v, some |-> f, prev |-> IF f THEN s ELSE Uninit]

\* a replace that sets the flag but never writes the new value
replace_unwritten(f, s, v) ==
    [is_some |-> TRUE, slot |-> s, some |-> f, prev |-> IF f THEN s ELSE Uninit]

\* OptionGuard::replace, OptionGuard::take and OptionGuard::as_ref on a guard
\* whose flag is f over slot contents s: the flag and slot they leave, and
\* what they return
replace(f, s, v) ==
    IF f THEN [is_some |-> f, slot |-> v, some |-> TRUE, prev |-> s]
    ELSE [is_some |-> TRUE, slot |-> v, some |-> FALSE, prev |-> Uninit]

take(f, s) ==
    IF f THEN [is_some |-> FALSE, slot |-> Uninit, some |-> TRUE, prev |-> s]
    ELSE [is_some |-> f, slot |-> s, some |-> FALSE, prev |-> Uninit]

as_ref(f, s) ==
    IF f THEN [some |-> TRUE, ref |-> s] ELSE [some |-> FALSE, ref |-> Uninit]

OptionGuard_replace(t) ==
    /\ Holding(t, "OptionGuard")
    /\ \E v \in Values :
        LET r == replace(filled[t], slot, v) IN
        /\ slot' = r.slot
        /\ filled' = [filled EXCEPT ![t] = r.is_some]
        /\ StepArg(t, "done", "replace", Option(r.some, r.prev), r.prev, v)
    /\ seen' = [seen EXCEPT ![t] = NoSeen]
    /\ UNCHANGED <<kind, alive, state, guard, ghost>>

OptionGuard_take(t) ==
    /\ Holding(t, "OptionGuard")
    /\ LET r == take(filled[t], slot) IN
        /\ slot' = r.slot
        /\ filled' = [filled EXCEPT ![t] = r.is_some]
        /\ seen' = [seen EXCEPT ![t] = IF r.some THEN NoSeen ELSE @]
        /\ Ret(t, "take", Option(r.some, r.prev), r.prev)
    /\ UNCHANGED <<kind, alive, state, guard, ghost>>

OptionGuard_as_ref(t) ==
    /\ Holding(t, "OptionGuard")
    /\ LET r == as_ref(filled[t], slot) IN
        Ret(t, "as_ref", Option(r.some, r.ref), r.ref)
    /\ UNCHANGED <<kind, alive, state, slot, guard, filled, seen, ghost>>

\* a destructor that publishes AVAILABLE whatever the flag
drop_byte_available(f) == AVAILABLE

\* a destructor that leaves the FREE bit out of the byte it stores
drop_byte_locked(f) == IF f THEN SOME ELSE LOCKED_EMPTY

\* a destructor with the two bytes the wrong way round
drop_byte_swapped(f) == IF f THEN FREE ELSE AVAILABLE

\* the byte Drop for OptionGuard stores
drop_byte(f) == IF f THEN AVAILABLE ELSE FREE

\* a get_or_try_init that goes on to hand out the reference after an error
after_release_ref(o, r) ==
    IF o \in {"get_or_init", "get_or_try_init", "force"} THEN "once_ref" ELSE "done"

\* where a call goes on once its temporary guard is dropped: get_or_init (also
\* under Lazy::force) and get_or_try_init go on to take the reference to the
\* value, unless the ? on init()'s error has returned early; every other call
\* returns
after_release(o, r) ==
    IF o \in {"get_or_init", "get_or_try_init", "force"} /\ r # "InitErr"
    THEN "once_ref" ELSE "done"

\* a guard's destructor has run: the caller holds nothing; a destructor run by
\* the library inside a call leaves the call's result as it is
Released(t) ==
    /\ guard' = [guard EXCEPT ![t] = "none"]
    /\ filled' = [filled EXCEPT ![t] = FALSE]
    /\ UNCHANGED seen
    /\ IF pc[t] = "release"
       THEN Step(t, after_release(op[t], res[t]), op[t], res[t], val[t])
       ELSE Ret(t, "drop", "Released", Uninit)

Dropping(t, g) == Quiet /\ guard[t] = g /\ pc[t] \in {"held", "unwinding", "release"}

\* impl Drop for OptionGuard
OptionGuard_drop(t) ==
    /\ Dropping(t, "OptionGuard")
    /\ state' = drop_byte(filled[t])
    /\ Released(t)
    /\ UNCHANGED <<kind, alive, slot, ghost>>

\* ------------------------------------------------- MutexGuard (mutex.rs)
\* std::thread::panicking() as the guard's destructor sees it
panicking(t) == pc[t] = "unwinding"

\* a MutexGuard destructor that takes the value out on every drop
MutexGuard_drop_takes_always(f, p) == f

\* impl Drop for MutexGuard: whether it takes the value out first
MutexGuard_drop_takes(f, p) == f /\ p

\* impl Drop for MutexGuard, then the drop of its OptionGuard field
MutexGuard_drop(t) ==
    /\ Dropping(t, "MutexGuard")
    /\ LET takes == MutexGuard_drop_takes(filled[t], panicking(t))
           f == IF takes THEN FALSE ELSE filled[t]
       IN /\ slot' = IF takes THEN Uninit ELSE slot
          /\ state' = drop_byte(f)
    /\ Released(t)
    /\ extracted' = (extracted \/ (kind = "Mutex" /\ pc[t] = "release" /\ op[t] = "extract"))
    /\ UNCHANGED <<kind, alive, initCount, initBy, filledBy, incremented, initFailed, init, round,
                   synced, published>>

\* MutexGuard::extract: slf.0.take().unwrap(); the guard is dropped on return
MutexGuard_extract(t) ==
    /\ Holding(t, "MutexGuard") \/ At(t, "extract")
    /\ filled[t]
    /\ filled' = [filled EXCEPT ![t] = FALSE]
    /\ slot' = Uninit
    /\ seen' = [seen EXCEPT ![t] = NoSeen]
    /\ Step(t, "release", IF pc[t] = "held" THEN "extract" ELSE op[t], "Ok", slot)
    /\ UNCHANGED <<kind, alive, state, guard, ghost>>

\* MutexGuard::replace: slf.0.replace(value).unwrap()
MutexGuard_replace(t) ==
    /\ Holding(t, "MutexGuard")
    /\ filled[t]
    /\ \E v \in Values : slot' = v
    /\ seen' = [seen EXCEPT ![t] = NoSeen]
    /\ Ret(t, "replace", "Some", slot)
    /\ UNCHANGED <<kind, alive, state, guard, filled, ghost>>

\* the code holding a guard panics: the guard is dropped while unwinding
panic(t) ==
    /\ At(t, "held")
    /\ Step(t, "unwinding", "panic", "none", Uninit)
    /\ UNCHANGED <<kind, alive, state, slot, guard, filled, seen, ghost>>

\* --------------------------------------------------- Arc guards (arc.rs)
\* a conversion that lets the borrowed guard go out of scope
forget_dropped(s, f) == drop_byte(f)

\* mem::forget(guard) on a guard with flag f: its destructor does not run, the
\* byte s stays
forget(s, f) == s

\* OptionGuardArc::new: filled: guard.is_some(), mem::forget(guard)
OptionGuardArc_new(t) ==
    /\ At(t, "arc_new")
    /\ guard[t] = "OptionGuard"
    /\ guard' = [guard EXCEPT ![t] = "OptionGuardArc"]
    /\ filled' = [filled EXCEPT ![t] = filled[t]]
    /\ state' = forget(state, filled[t])
    /\ Step(t, "done", op[t], res[t], val[t])
    /\ UNCHANGED <<kind, alive, slot, seen, ghost>>

\* MutexGuardArc::new: mem::forget(guard)
MutexGuardArc_new(t) ==
    /\ At(t, "arc_new")
    /\ guard[t] = "MutexGuard"
    /\ guard' = [guard EXCEPT ![t] = "MutexGuardArc"]
    /\ state' = forget(state, filled[t])
    /\ Step(t, "done", op[t], res[t], val[t])
    /\ UNCHANGED <<kind, alive, slot, filled, seen, ghost>>

\* an OptionGuardArc::replace that forgets to set the flag of an empty guard
arc_replace_unflagged(f, s, v) ==
    [is_some |-> f, slot |-> v, some |-> f, prev |-> IF f THEN s ELSE Uninit]

\* OptionGuardArc::replace, OptionGuardArc::take and OptionGuardArc::as_ref
arc_replace(f, s, v) ==
    LET ret == IF f THEN [some |-> TRUE, prev |-> s] ELSE [some |-> FALSE, prev |-> Uninit]
    IN [is_some |-> IF f THEN f ELSE TRUE, slot |-> v, some |-> ret.some, prev |-> ret.prev]

arc_take(f, s) ==
    IF f THEN [is_some |-> FALSE, slot |-> Uninit, some |-> TRUE, prev |-> s]
    ELSE [is_some |-> f, slot |-> s, some |-> FALSE, prev |-> Uninit]

arc_as_ref(f, s) ==
    IF f THEN [some |-> TRUE, ref |-> s] ELSE [some |-> FALSE, ref |-> Uninit]

OptionGuardArc_replace(t) ==
    /\ Holding(t, "OptionGuardArc")
    /\ \E v \in Values :
        LET r == arc_replace(filled[t], slot, v) IN
        /\ slot' = r.slot
        /\ filled' = [filled EXCEPT ![t] = r.is_some]
        /\ StepArg(t, "done", "replace", Option(r.some, r.prev), r.prev, v)
    /\ seen' = [seen EXCEPT ![t] = NoSeen]
    /\ UNCHANGED <<kind, alive, state, guard, ghost>>

OptionGuardArc_take(t) ==
    /\ Holding(t, "OptionGuardArc")
    /\ LET r == arc_take(filled[t], slot) IN
        /\ slot' = r.slot
        /\ filled' = [filled EXCEPT ![t] = r.is_some]
        /\ seen' = [seen EXCEPT ![t] = IF r.some THEN NoSeen ELSE @]
        /\ Ret(t, "take", Option(r.some, r.prev), r.prev)
    /\ UNCHANGED <<kind, alive, state, guard, ghost>>

OptionGuardArc_as_ref(t) ==
    /\ Holding(t, "OptionGuardArc")
    /\ LET r == arc_as_ref(filled[t], slot) IN
        Ret(t, "as_ref", Option(r.some, r.ref), r.ref)
    /\ UNCHANGED <<kind, alive, state, slot, guard, filled, seen, ghost>>

\* impl Drop for OptionGuardArc: let _ = OptionGuard::new(&self.lock, self.filled)
OptionGuardArc_drop(t) ==
    /\ Dropping(t, "OptionGuardArc")
    /\ state' = drop_byte(filled[t])
    /\ Released(t)
    /\ UNCHANGED <<kind, alive, slot, ghost>>

\* MutexGuardArc::replace: mem::replace
MutexGuardArc_replace(t) ==
    /\ Holding(t, "MutexGuardArc")
    /\ \E v \in Values : slot' = v
    /\ seen' = [seen EXCEPT ![t] = NoSeen]
    /\ Ret(t, "replace", "Some", slot)
    /\ UNCHANGED <<kind, alive, state, guard, filled, ghost>>

\* impl Drop for MutexGuardArc: let _ = OptionGuard::new(&self.lock.inner, true)
MutexGuardArc_drop(t) ==
    /\ Dropping(t, "MutexGuardArc")
    /\ state' = drop_byte(TRUE)
    /\ Released(t)
    /\ UNCHANGED <<kind, alive, slot, ghost>>

\* -------------------------------------------------------- Mutex (mutex.rs)
\* Mutex::try_lock that reports a drained Mutex as contention
Mutex_try_lock_res_unavailable(r) == IF r = "Ok" THEN "Ok" ELSE "Unavailable"

\* Mutex::try_lock: the mapping of try_get's result
Mutex_try_lock_res(r) ==
    CASE r = "Ok" -> "Ok"
      [] r = "FillState" -> "Poisoned"
      [] r = "Unavailable" -> "Unavailable"

do_Mutex_try_lock(t, o, okpc) ==
    LET c == try_get_cas(state) IN
    /\ state' = c.next
    /\ IF c.ok
       THEN /\ Hold(t, "MutexGuard", TRUE, state)
            /\ Step(t, okpc, o, Mutex_try_lock_res(try_get_res(c)), Uninit)
       ELSE /\ NoHold
            /\ Ret(t, o, Mutex_try_lock_res(try_get_res(c)), Uninit)
    /\ UNCHANGED <<kind, alive, slot, ghost>>

Mutex_try_lock(t) ==
    /\ CanCall(t, {"Mutex"})
    /\ do_Mutex_try_lock(t, "Mutex_try_lock", "done")

Mutex_try_lock_arc(t) ==
    /\ CanCall(t, {"Mutex"})
    /\ do_Mutex_try_lock(t, "Mutex_try_lock_arc", "arc_new")

\* Mutex::try_clone: self.try_lock().map(|g| (*g).clone())
Mutex_try_clone(t) ==
    /\ CanCall(t, {"Mutex"})
    /\ do_Mutex_try_lock(t, "Mutex_try_clone", "clone")

\* Mutex::try_copy: self.try_lock().map(|g| *g)
Mutex_try_copy(t) ==
    /\ CanCall(t, {"Mutex"})
    /\ do_Mutex_try_lock(t, "Mutex_try_copy", "clone")

\* Mutex::spin_lock: self.inner.spin_lock() ...
Mutex_spin_lock(t) ==
    /\ CanCall(t, {"Mutex"}) \/ Retrying(t, "Mutex_spin_lock")
    /\ do_try_lock(t, "Mutex_spin_lock", "mutex_check", "spin_wait")

\* a Mutex::spin_lock that wraps whatever guard it acquired
Mutex_spin_lock_res_ok(f) == "Ok"

\* Mutex::spin_lock: the result for a guard whose fill flag is f
Mutex_spin_lock_res(f) == IF ~f THEN "Poisoned" ELSE "Ok"

\* ... then if guard.is_none() { Err(PoisonError) } else { Ok(MutexGuard::new(guard)) }
Mutex_spin_lock_check(t) ==
    /\ At(t, "mutex_check")
    /\ IF Mutex_spin_lock_res(filled[t]) = "Poisoned"
       THEN /\ Step(t, "release", op[t], "Poisoned", Uninit)
            /\ UNCHANGED guard
       ELSE /\ Ret(t, op[t], "Ok", Uninit)
            /\ guard' = [guard EXCEPT ![t] = "MutexGuard"]
    /\ UNCHANGED <<kind, alive, state, slot, filled, seen, ghost>>

\* OptionLock::into_inner: whether it reads the slot
into_inner_is_some(s) == BitAnd(s, SOME) # 0

\* Mutex::into_inner: self.inner.into_inner().ok_or(PoisonError)
Mutex_into_inner(t) ==
    /\ Exclusive(t, {"Mutex"})
    /\ alive' = FALSE
    /\ IF into_inner_is_some(state)
       THEN /\ Ret(t, "Mutex_into_inner", "Ok", slot)
            /\ slot' = Uninit
       ELSE /\ Ret(t, "Mutex_into_inner", "Poisoned", Uninit)
            /\ UNCHANGED slot
    /\ UNCHANGED <<kind, state, guard, filled, seen, ghost>>

\* Mutex::get_mut: unsafe { &mut *self.as_mut_ptr() }; the reference is to
\* whatever the slot holds
Mutex_get_mut(t) ==
    /\ Exclusive(t, {"Mutex"})
    /\ Ret(t, "Mutex_get_mut", "Ref", slot)
    /\ UNCHANGED <<kind, alive, state, slot, guard, filled, seen, ghost>>

\* ------------------------------------------------------ OnceCell (once.rs)
\* impl From<OptionLock<T>> for OnceCell<T>: Self(lock), the lock as it is
OnceCell_from(t) ==
    /\ Exclusive(t, {"OptionLock"})
    /\ kind' = "OnceCell"
    /\ filledBy' = IF is_some(state) THEN "new" ELSE "none"
    /\ Ret(t, "from", "OnceCell", Uninit)
    /\ UNCHANGED <<alive, state, slot, guard, filled, seen, initCount, initBy,
                   extracted, incremented, initFailed, init, round,
                   synced, published>>

\* OnceCell::get: if self.0.is_some() { Some(&*self.0.as_ptr()) } else { None }
OnceCell_get(t) ==
    /\ CanCall(t, {"OnceCell"})
    /\ IF is_some(state)
       THEN \E v \in slot_read(slot) : Ret(t, "get", "Some", v)
       ELSE Ret(t, "get", "None", Uninit)
    /\ UNCHANGED <<kind, alive, state, slot, guard, filled, seen, ghost>>

\* OnceCell::get_or_init: if let Some(value) = self.get() { return value; }
OnceCell_get_or_init(t) ==
    /\ CanCall(t, {"OnceCell"})
    /\ IF is_some(state)
       THEN Ret(t, "get_or_init", "Ok", slot)
       ELSE Step(t, "once_lock", "get_or_init", "none", Uninit)
    /\ UNCHANGED <<kind, alive, state, slot, guard, filled, seen, ghost>>

\* OnceCell::get_or_try_init: if let Some(value) = self.get() { return Ok(value); }
OnceCell_get_or_try_init(t) ==
    /\ CanCall(t, {"OnceCell"})
    /\ IF is_some(state)
       THEN Ret(t, "get_or_try_init", "Ok", slot)
       ELSE Step(t, "once_lock", "get_or_try_init", "none", Uninit)
    /\ UNCHANGED <<kind, alive, state, slot, guard, filled, seen, ghost>>

\* match self.0.try_lock_none()
OnceCell_try_lock_none(t) ==
    /\ At(t, "once_lock")
    /\ do_try_lock_none(t, op[t], "once_init", "once_ref", "once_wait")

\* Ok(mut guard) => { let prev = guard.replace(init()); assert!(prev.is_none()); }
\* (the guard of try_lock_none is empty, so prev is none)
OnceCell_init(t) ==
    /\ At(t, "once_init")
    /\ op[t] \in {"get_or_init", "get_or_try_init"}
    /\ initCount < MaxInits
    /\ slot' = InitVal(t)
    /\ filled' = [filled EXCEPT ![t] = TRUE]
    /\ seen' = [seen EXCEPT ![t] = NoSeen]
    /\ initCount' = initCount + 1
    /\ initBy' = t
    /\ filledBy' = "init"
    /\ Step(t, "release", op[t], "none", Uninit)
    /\ UNCHANGED <<kind, alive, state, guard, extracted, incremented, initFailed, init, round,
                   synced, published>>

\* guard.replace(init()?) where init() returns Err(e): the ? returns Err(e)
\* before replace is called, dropping the guard as it was claimed
OnceCell_init_err(t) ==
    /\ At(t, "once_init")
    /\ op[t] = "get_or_try_init"
    /\ initFailed' = TRUE
    /\ Step(t, "release", op[t], "InitErr", Uninit)
    /\ UNCHANGED <<kind, alive, state, slot, guard, filled, seen, initCount, initBy,
                   filledBy, extracted, incremented, init, round,
                   synced, published>>

\* Err(Unavailable) => loop { while !self.0.is_some_unlocked() { spin_loop(); } }
\* the test of the while loop: its body, or back to the top of the outer loop
OnceCell_wait(t) ==
    /\ At(t, "once_wait")
    /\ pc' = [pc EXCEPT ![t] = IF ~is_some_unlocked(state) THEN "once_spin" ELSE "once_loop"]
    /\ UNCHANGED <<kind, alive, state, slot, op, res, val, arg, guard, filled, seen, ghost>>

\* spin_loop() in the while loop, and the outer loop's jump back to its top
OnceCell_loop(t) ==
    /\ Quiet /\ pc[t] \in {"once_spin", "once_loop"}
    /\ pc' = [pc EXCEPT ![t] = "once_wait"]
    /\ UNCHANGED <<kind, alive, state, slot, op, res, val, arg, guard, filled, seen, ghost>>

\* unsafe { &*self.0.as_ptr() }
OnceCell_ref(t) ==
    /\ At(t, "once_ref")
    /\ Ret(t, op[t], "Ok", slot)
    /\ UNCHANGED <<kind, alive, state, slot, guard, filled, seen, ghost>>

\* OnceCell::set: self.0.try_fill(value)
OnceCell_set(t) ==
    /\ CanCall(t, {"OnceCell"})
    /\ \E v \in Values : do_try_fill(t, "set", v)

\* OnceCell::is_locked: self.0.is_locked()
OnceCell_is_locked(t) ==
    /\ CanCall(t, {"OnceCell"})
    /\ Ret(t, "is_locked", IF is_locked(state) THEN "true" ELSE "false", Uninit)
    /\ UNCHANGED <<kind, alive, state, slot, guard, filled, seen, ghost>>

\* --------------------------------------------------------- Lazy (once.rs)
\* a Cell::take that leaves the initializer in the cell
Cell_take_kept(i) == [some |-> i, init |-> i]

\* Cell<Option<F>>::take: what it returns and what it leaves
Cell_take(i) == [some |-> i, init |-> FALSE]

\* Lazy::force (and Deref::deref, which calls it): this.cell.get_or_init(..),
\* whose first statement is the fast path
Lazy_force(t) ==
    /\ CanCall(t, {"Lazy"})
    /\ IF is_some(state)
       THEN Ret(t, "force", "Ok", slot)
       ELSE Step(t, "once_lock", "force", "none", Uninit)
    /\ UNCHANGED <<kind, alive, state, slot, guard, filled, seen, ghost>>

\* the closure of force, run by get_or_init under its guard:
\* this.init.take().unwrap(), which panics when the cell is empty
Lazy_init_take(t) ==
    /\ At(t, "once_init")
    /\ op[t] = "force"
    /\ LET r == Cell_take(init) IN
        /\ init' = r.init
        /\ IF r.some
           THEN Step(t, "lazy_call", op[t], "none", Uninit)
           ELSE Step(t, "unwinding", "panic", "none", Uninit)
    /\ UNCHANGED <<kind, alive, state, slot, guard, filled, seen, initCount, initBy,
                   filledBy, extracted, incremented, initFailed, round,
                   synced, published>>

\* the call of the initializer taken out: guard.replace of the value it
\* returns, or its panic, which unwinds through the guard
Lazy_call(t) ==
    /\ At(t, "lazy_call")
    /\ initCount < MaxInits
    /\ initCount' = initCount + 1
    /\ initBy' = t
    /\ \/ /\ slot' = InitVal(t)
          /\ filled' = [filled EXCEPT ![t] = TRUE]
          /\ seen' = [seen EXCEPT ![t] = NoSeen]
          /\ filledBy' = "init"
          /\ Step(t, "release", op[t], "none", Uninit)
       \/ /\ Step(t, "unwinding", "panic", "none", Uninit)
          /\ UNCHANGED <<slot, filled, seen, filledBy>>
    /\ UNCHANGED <<kind, alive, state, guard, extracted, incremented, initFailed, init, round,
                   synced, published>>

\* ------------------------------------------------------------- callers
\* the caller takes the result of its call and goes on
Return(t) ==
    /\ pc[t] = "done"
    /\ Step(t, IF guard[t] = "none" THEN "idle" ELSE "held", "none", "none", Uninit)
    /\ seen' = [seen EXCEPT ![t] = IF guard[t] = "none" THEN NoSeen ELSE @]
    /\ UNCHANGED <<kind, alive, state, slot, guard, filled, ghost>>

\* a guard's destructor, whichever type the guard has
guard_drop(t) ==
    \/ OptionGuard_drop(t)
    \/ MutexGuard_drop(t)
    \/ OptionGuardArc_drop(t)
    \/ MutexGuardArc_drop(t)

\* the steps inside a call, which a running caller goes on to take
Progress(t) ==
    \/ pc[t] \in {"unwinding", "release"} /\ guard_drop(t)
    \/ spin_get(t) /\ Retrying(t, "spin_get")
    \/ spin_lock(t) /\ Retrying(t, "spin_lock")
    \/ spin_lock_none(t) /\ Retrying(t, "spin_lock_none")
    \/ spin_take(t) /\ Retrying(t, "spin_take")
    \/ Mutex_spin_lock(t) /\ Retrying(t, "Mutex_spin_lock")
    \/ spin_wait(t) \/ spin_loop(t)
    \/ try_fill_replace(t) \/ try_fill_with_replace(t)
    \/ MutexGuard_extract(t) /\ pc[t] = "extract"
    \/ MutexGuard_clone(t)
    \/ OptionGuardArc_new(t) \/ MutexGuardArc_new(t)
    \/ Mutex_spin_lock_check(t)
    \/ OnceCell_try_lock_none(t) \/ OnceCell_init(t) \/ OnceCell_init_err(t)
    \/ OnceCell_wait(t) \/ OnceCell_loop(t) \/ OnceCell_ref(t)
    \/ Lazy_init_take(t) \/ Lazy_call(t)
    \/ Return(t)

Next ==
    \E t \in Threads :
        \/ try_lock(t) \/ try_lock_arc(t)
        \/ try_get(t) \/ try_get_arc(t) \/ try_take(t)
        \/ try_lock_none(t) \/ try_lock_empty_arc(t)
        \/ try_fill(t) \/ try_fill_with(t)
        \/ try_fill_replace(t) \/ try_fill_with_replace(t)
        \/ spin_get(t) \/ spin_lock(t) \/ spin_lock_none(t) \/ spin_take(t)
        \/ spin_wait(t) \/ spin_loop(t)
        \/ OptionGuard_replace(t) \/ OptionGuard_take(t) \/ OptionGuard_drop(t)
        \/ OptionGuard_as_ref(t) \/ OptionGuardArc_as_ref(t)
        \/ MutexGuard_replace(t) \/ MutexGuard_extract(t) \/ MutexGuard_drop(t)
        \/ panic(t)
        \/ OptionGuardArc_new(t) \/ OptionGuardArc_replace(t)
        \/ OptionGuardArc_take(t) \/ OptionGuardArc_drop(t)
        \/ MutexGuardArc_new(t) \/ MutexGuardArc_replace(t) \/ MutexGuardArc_drop(t)
        \/ Mutex_try_lock(t) \/ Mutex_try_lock_arc(t)
        \/ Mutex_try_clone(t) \/ Mutex_try_copy(t)
        \/ Mutex_spin_lock(t) \/ Mutex_spin_lock_check(t)
        \/ Mutex_into_inner(t) \/ Mutex_get_mut(t)
        \/ OnceCell_get(t) \/ OnceCell_get_or_init(t) \/ OnceCell_try_lock_none(t)
        \/ OnceCell_get_or_try_init(t) \/ OnceCell_init_err(t)
        \/ OnceCell_init(t) \/ OnceCell_wait(t) \/ OnceCell_loop(t)
        \/ OnceCell_ref(t) \/ OnceCell_set(t) \/ OnceCell_is_locked(t)
        \/ Lazy_force(t) \/ Lazy_init_take(t) \/ Lazy_call(t)
        \/ OptionLock_drop(t) \/ OptionLock_into_inner(t)
        \/ try_clone(t) \/ try_copy(t) \/ MutexGuard_clone(t)
        \/ OnceCell_from(t)
        \/ Return(t)

Spec == Init /\ [][Next]_vars

\* ---------------------------------------------- workers sharing a counter
\* examples/try-mutex.rs: every worker thread acquires the filled lock once,
\* adds one to the integer in it through the guard and releases, while the main
\* thread polls the integer under the same lock.  A worker acquires as the
\* example does (try_get in a loop with spin_loop()), or with the library's own
\* loops, spin_get or spin_lock.
Main == 0
WorkerParties == {Main} \cup Threads

\* The slot holds an integer counter.  Uninit is 0, so the integer n is kept in
\* the slot as n + 1.
Count(s) == s - 1

\* *guard += 1, the load: the guard's deref_mut, then the read of the value
increment_load(t) ==
    /\ At(t, "held")
    /\ guard[t] \in {"MutexGuard", "OptionGuard"}
    /\ filled[t]
    /\ t \notin incremented
    /\ Step(t, "increment", "increment", "none", slot)
    /\ UNCHANGED <<kind, alive, state, slot, guard, filled, seen, ghost>>

\* *guard += 1, the store of the value read plus one
increment_store(t) ==
    /\ At(t, "increment")
    /\ slot' = val[t] + 1
    /\ incremented' = incremented \cup {t}
    /\ seen' = [seen EXCEPT ![t] = NoSeen]
    /\ Ret(t, "increment", "Ok", Uninit)
    /\ UNCHANGED <<kind, alive, state, guard, filled, initCount, initBy, filledBy,
                   extracted, initFailed, init, round,
                   synced, published>>

\* if let Some(mut guard) = shared.try_lock(): TryMutex::try_lock is
\* self.lock.try_get(); a failed try goes on to spin_loop()
worker_try_lock(t) ==
    /\ t \in Threads /\ t \notin incremented /\ guard[t] = "none"
    /\ CanCall(t, {"OptionLock"})
    /\ do_try_get(t, "try_get", "done", "worker_spin")

\* spin_loop() at the end of the worker's loop body, then the next iteration
worker_spin_loop(t) ==
    /\ t \in Threads
    /\ At(t, "worker_spin")
    /\ Step(t, "idle", "none", "none", Uninit)
    /\ UNCHANGED <<kind, alive, state, slot, guard, filled, seen, ghost>>

worker_spin_get(t) ==
    /\ t \in Threads /\ t \notin incremented /\ guard[t] = "none"
    /\ spin_get(t)

worker_spin_lock(t) ==
    /\ t \in Threads /\ t \notin incremented /\ guard[t] = "none"
    /\ spin_lock(t)

\* the guard goes out of scope once the worker has incremented
worker_drop(t) == t \in Threads /\ t \in incremented /\ pc[t] = "held" /\ guard_drop(t)

\* main's poll, shared.try_lock(): try_get; on success the closure of map runs
\* next, on failure the comparison fails and main goes on to spin_loop()
main_try_lock ==
    LET c == try_get_cas(state) IN
    /\ CanCall(Main, {"OptionLock"})
    /\ state' = c.next
    /\ IF c.ok
       THEN /\ Hold(Main, "MutexGuard", TRUE, state)
            /\ Step(Main, "clone", "try_get", "Ok", Uninit)
       ELSE /\ NoHold
            /\ Step(Main, "main_spin", "try_get", try_get_res(c), Uninit)
    /\ UNCHANGED <<kind, alive, slot, ghost>>

\* .map(|guard| *guard): the integer is read through the guard, which is
\* dropped when the closure returns
main_read == MutexGuard_clone(Main)

main_drop == pc[Main] = "release" /\ MutexGuard_drop(Main)

\* == Some(threads): break, or spin_loop() and poll again
main_compare ==
    /\ pc[Main] = "done"
    /\ Step(Main, IF Count(val[Main]) = NumThreads THEN "finished" ELSE "main_spin",
            op[Main], res[Main], val[Main])
    /\ UNCHANGED <<kind, alive, state, slot, guard, filled, seen, ghost>>

main_spin_loop ==
    /\ At(Main, "main_spin")
    /\ Step(Main, "idle", "none", "none", Uninit)
    /\ UNCHANGED <<kind, alive, state, slot, guard, filled, seen, ghost>>

main == main_try_lock \/ main_read \/ main_drop \/ main_compare \/ main_spin_loop

worker(t) ==
    /\ t \in Threads
    /\ \/ worker_try_lock(t) \/ worker_spin_loop(t)
       \/ worker_spin_get(t) \/ worker_spin_lock(t)
       \/ spin_wait(t) \/ spin_loop(t)
       \/ increment_load(t) \/ increment_store(t)
       \/ worker_drop(t)
       \/ Return(t)

\* let shared = Arc::new(TryMutex::new(0i32)): a filled lock holding the integer 0
WorkersInit ==
    /\ kind = "OptionLock"
    /\ alive = TRUE
    /\ state = AVAILABLE
    /\ slot = 1
    /\ pc = [t \in WorkerParties |-> "idle"]
    /\ op = [t \in WorkerParties |-> "none"]
    /\ guard = [t \in WorkerParties |-> "none"]
    /\ filled = [t \in WorkerParties |-> FALSE]
    /\ res = [t \in WorkerParties |-> "none"]
    /\ val = [t \in WorkerParties |-> Uninit]
    /\ arg = [t \in WorkerParties |-> Uninit]
    /\ seen = [t \in WorkerParties |-> NoSeen]
    /\ initCount = 0
    /\ initBy = 0
    /\ filledBy = "new"
    /\ extracted = FALSE
    /\ incremented = {}
    /\ initFailed = FALSE
    /\ init = FALSE
    /\ round = 0
    /\ synced = Threads
    /\ published = TRUE

WorkersNext ==
    \/ main_try_lock \/ main_read \/ main_drop \/ main_compare \/ main_spin_loop
    \/ \E t \in Threads :
        \/ worker_try_lock(t) \/ worker_spin_loop(t)
        \/ worker_spin_get(t) \/ worker_spin_lock(t)
        \/ spin_wait(t) \/ spin_loop(t)
        \/ increment_load(t) \/ increment_store(t)
        \/ worker_drop(t)
        \/ Return(t)

\* fair scheduling: every thread keeps taking steps while it has one to take
WorkersSpec ==
    /\ WorkersInit
    /\ [][WorkersNext]_vars
    /\ SF_vars(main)
    /\ \A t \in Threads : SF_vars(worker(t))

\* The worker threads on their own: every thread acquires the filled lock once
\* (spin_get, spin_lock, or the example's loop of try_get), increments through
\* its guard and releases, and no other thread touches the lock.
IncrementNext ==
    \E t \in Threads :
        \/ worker_try_lock(t) \/ worker_spin_loop(t)
        \/ worker_spin_get(t) \/ worker_spin_lock(t)
        \/ spin_wait(t) \/ spin_loop(t)
        \/ increment_load(t) \/ increment_store(t)
        \/ worker_drop(t)
        \/ Return(t)

\* weakly fair scheduling: a thread that can take a step eventually takes one
IncrementSpec ==
    /\ WorkersInit
    /\ [][IncrementNext]_vars
    /\ \A t \in Threads : WF_vars(worker(t))

\* ------------------------------------------- producer/consumer hand-off
\* One producer puts NumThreads values, one after the other, into an initially
\* empty lock, and NumThreads consumers each take one value out
\* (benches/contention.rs, lock_contention_spin).
Producer == 0
Consumers == Threads
Parties == {Producer} \cup Consumers

\* let mut guard = lock.spin_lock_none(): the try at the top of its loop
producer_spin_lock_none ==
    /\ round < NumThreads
    /\ guard[Producer] = "none"
    /\ spin_lock_none(Producer)

\* guard.replace(val)
producer_replace ==
    /\ Holding(Producer, "OptionGuard")
    /\ ~filled[Producer]
    /\ LET r == replace(filled[Producer], slot, round + 1) IN
        /\ slot' = r.slot
        /\ filled' = [filled EXCEPT ![Producer] = r.is_some]
        /\ StepArg(Producer, "done", "replace", Option(r.some, r.prev), r.prev, round + 1)
    /\ seen' = [seen EXCEPT ![Producer] = NoSeen]
    /\ round' = round + 1
    /\ UNCHANGED <<kind, alive, state, guard, initCount, initBy, filledBy, extracted,
                   incremented, initFailed, init, synced, published>>

\* the guard goes out of scope at the end of the loop body
producer_drop ==
    /\ pc[Producer] = "held"
    /\ filled[Producer]
    /\ OptionGuard_drop(Producer)

\* let val = lock.spin_take(): the try at the top of its loop
consumer_spin_take(t) ==
    /\ t \in Consumers
    /\ spin_take(t)

\* spin_take has returned its value: done.fetch_add(val), and the thread ends
consumer_finish(t) ==
    /\ t \in Consumers
    /\ pc[t] = "done"
    /\ Step(t, "finished", op[t], res[t], val[t])
    /\ UNCHANGED <<kind, alive, state, slot, guard, filled, seen, ghost>>

party(t) ==
    \/ t = Producer /\
          (producer_spin_lock_none \/ producer_replace \/ producer_drop \/ Return(Producer))
    \/ consumer_spin_take(t)
    \/ spin_wait(t) \/ spin_loop(t)
    \/ MutexGuard_extract(t) /\ pc[t] = "extract"
    \/ MutexGuard_drop(t) /\ pc[t] = "release"
    \/ consumer_finish(t)

HandoffInit ==
    /\ kind = "OptionLock"
    /\ alive = TRUE
    /\ state = FREE
    /\ slot = Uninit
    /\ pc = [t \in Parties |-> "idle"]
    /\ op = [t \in Parties |-> "none"]
    /\ guard = [t \in Parties |-> "none"]
    /\ filled = [t \in Parties |-> FALSE]
    /\ res = [t \in Parties |-> "none"]
    /\ val = [t \in Parties |-> Uninit]
    /\ arg = [t \in Parties |-> Uninit]
    /\ seen = [t \in Parties |-> NoSeen]
    /\ initCount = 0
    /\ initBy = 0
    /\ filledBy = "none"
    /\ extracted = FALSE
    /\ incremented = {}
    /\ initFailed = FALSE
    /\ init = FALSE
    /\ round = 0
    /\ synced = Threads
    /\ published = TRUE

HandoffNext ==
    \/ producer_spin_lock_none \/ producer_replace \/ producer_drop \/ Return(Producer)
    \/ \E t \in Parties :
        \/ consumer_spin_take(t)
        \/ spin_wait(t) \/ spin_loop(t)
        \/ MutexGuard_extract(t) /\ pc[t] = "extract"
        \/ MutexGuard_drop(t) /\ pc[t] = "release"
        \/ consumer_finish(t)

\* fair scheduling: every thread keeps taking steps while it has one to take
HandoffSpec ==
    /\ HandoffInit
    /\ [][HandoffNext]_vars
    /\ \A t \in Parties : SF_vars(party(t))

\* --------------------------------------------- a spin_lock caller in a crowd
\* One caller acquires with spin_lock only, while the others keep acquiring
\* (with try_lock or spin_lock), using and releasing the lock.  Every thread
\* keeps taking steps, and every guard's scope ends.
Victim == 1
Others == Threads \ {Victim}

\* the waiter's call of spin_lock, and the try_lock at the top of its loop
victim_spin_lock == spin_lock(Victim)

\* the waiter's steps: the try, the relaxed is_locked poll, spin_loop(), and,
\* should it acquire, the return and the end of its guard's scope
victim(t) ==
    /\ t = Victim
    /\ \/ victim_spin_lock
       \/ spin_wait(t) \/ spin_loop(t)
       \/ OptionGuard_drop(t)
       \/ Return(t)

\* another caller's steps: acquire, use the guard, release
other(t) ==
    /\ t \in Others
    /\ \/ try_lock(t) \/ spin_lock(t)
       \/ spin_wait(t) \/ spin_loop(t)
       \/ OptionGuard_replace(t) \/ OptionGuard_take(t)
       \/ OptionGuard_drop(t)
       \/ Return(t)

StarveInit == Init /\ kind = "OptionLock"

StarveNext ==
    \/ victim_spin_lock
    \/ \E t \in Threads :
        \/ t \in Others /\ (try_lock(t) \/ spin_lock(t))
        \/ spin_wait(t) \/ spin_loop(t)
        \/ t \in Others /\ (OptionGuard_replace(t) \/ OptionGuard_take(t))
        \/ OptionGuard_drop(t)
        \/ Return(t)

\* every thread keeps taking steps, and a guard's scope ends
StarveSpec ==
    /\ StarveInit
    /\ [][StarveNext]_vars
    /\ \A t \in Threads : SF_vars(victim(t)) /\ SF_vars(other(t))
    /\ \A t \in Threads : SF_vars(OptionGuard_drop(t))

\* ------------------------------------- owned access after guard operations
\* mem::forget(guard) by the guard's holder: the guard's destructor never runs,
\* so the byte stays as the claim left it, and the borrow of the lock ends
OptionGuard_forget(t) ==
    /\ Holding(t, "OptionGuard")
    /\ state' = forget(state, filled[t])
    /\ guard' = [guard EXCEPT ![t] = "none"]
    /\ filled' = [filled EXCEPT ![t] = FALSE]
    /\ seen' = [seen EXCEPT ![t] = NoSeen]
    /\ Ret(t, "forget", "Forgotten", Uninit)
    /\ UNCHANGED <<kind, alive, slot, ghost>>

\* an OptionLock used through its guards and then through &mut self / self,
\* also turned into a OnceCell
OwnedInit == Init /\ kind = "OptionLock"

OwnedNext ==
    \E t \in Threads :
        \/ try_lock(t)
        \/ try_lock_none(t)
        \/ OptionGuard_replace(t)
        \/ OptionGuard_take(t)
        \/ OptionGuard_drop(t)
        \/ OptionGuard_forget(t)
        \/ OptionLock_get_mut(t)
        \/ OptionLock_replace(t)
        \/ OptionLock_take(t)
        \/ OptionLock_into_inner(t)
        \/ OptionLock_drop(t)
        \/ OnceCell_from(t)
        \/ OnceCell_get(t)
        \/ OnceCell_is_locked(t)
        \/ Return(t)

OwnedSpec == OwnedInit /\ [][OwnedNext]_vars

\* ------------------------------------------------- memory orderings (lock.rs)
\* The orderings the code passes to each atomic operation on the state byte.
try_lock_ordering == "Release"
try_get_ordering == [success |-> "AcqRel", failure |-> "Relaxed"]
try_lock_none_ordering == [success |-> "AcqRel", failure |-> "Relaxed"]
try_fill_ordering == [success |-> "AcqRel", failure |-> "Relaxed"]
OptionGuard_drop_ordering == "Release"
State_value_ordering == "Relaxed"
State_eq_ordering == "Relaxed"

\* the acquire and the release half of an ordering
Acquires(o) == o \in {"Acquire", "AcqRel", "SeqCst"}
Releases(o) == o \in {"Release", "AcqRel", "SeqCst"}

\* A load of the byte by t: an acquire load that reads a byte whose release
\* sequence carries every access to the slot so far orders t after them.
load_sync(t, o) ==
    [synced |-> IF Acquires(o) /\ published THEN synced \cup {t} ELSE synced,
     published |-> published]

\* A read-modify-write by t: it reads as a load does, it continues the release
\* sequence it read from, and with a release ordering it heads one of its own.
rmw_sync(t, o) ==
    LET l == load_sync(t, o) IN
    [synced |-> l.synced,
     published |-> published \/ (Releases(o) /\ t \in l.synced)]

\* A plain store by t ends the release sequence in the byte and, as a release
\* store, starts one carrying what t is ordered after.
store_sync(t, o) ==
    [synced |-> synced, published |-> Releases(o) /\ t \in synced]

\* An access to the slot by t: only t is ordered after it until the byte
\* passes it on.
access_sync(t) == [synced |-> synced \cap {t}, published |-> FALSE]

Sync(m) == synced' = m.synced /\ published' = m.published

\* what a read of the slot by t yields: the slot's contents, or, if an earlier
\* access to the slot does not happen-before the read (a data race), anything
raced_read(t, s) == IF t \in synced THEN {s} ELSE {Uninit} \cup Values

\* try_lock: fetch_and(!FREE, Release)
ordered_try_lock(t) ==
    /\ CanCall(t, {"OptionLock"})
    /\ state' = try_lock_store(state)
    /\ Sync(rmw_sync(t, try_lock_ordering))
    /\ IF try_lock_ok(state)
       THEN /\ Hold(t, "OptionGuard", try_lock_is_some(state), state)
            /\ Ret(t, "try_lock", "Ok", Uninit)
       ELSE /\ NoHold
            /\ Ret(t, "try_lock", "Unavailable", Uninit)
    /\ UNCHANGED <<kind, alive, slot, book>>

\* try_get: compare_exchange(AVAILABLE, SOME, AcqRel, Relaxed)
ordered_try_get(t) ==
    LET c == try_get_cas(state) IN
    /\ CanCall(t, {"OptionLock"})
    /\ state' = c.next
    /\ IF c.ok
       THEN /\ Sync(rmw_sync(t, try_get_ordering.success))
            /\ Hold(t, "MutexGuard", TRUE, state)
            /\ Ret(t, "try_get", "Ok", Uninit)
       ELSE /\ Sync(load_sync(t, try_get_ordering.failure))
            /\ NoHold
            /\ Ret(t, "try_get", try_get_res(c), Uninit)
    /\ UNCHANGED <<kind, alive, slot, book>>

\* try_lock_none: compare_exchange(FREE, 0, AcqRel, Relaxed)
ordered_try_lock_none(t) ==
    LET c == try_lock_none_cas(state) IN
    /\ CanCall(t, {"OptionLock"})
    /\ state' = c.next
    /\ IF c.ok
       THEN /\ Sync(rmw_sync(t, try_lock_none_ordering.success))
            /\ Hold(t, "OptionGuard", FALSE, state)
            /\ Ret(t, "try_lock_none", "Ok", Uninit)
       ELSE /\ Sync(load_sync(t, try_lock_none_ordering.failure))
            /\ NoHold
            /\ Ret(t, "try_lock_none", try_lock_none_res(c), Uninit)
    /\ UNCHANGED <<kind, alive, slot, book>>

\* try_fill: compare_exchange(FREE, 0, AcqRel, Relaxed), then the replace
ordered_try_fill(t) ==
    LET c == try_fill_cas(state) IN
    /\ CanCall(t, {"OptionLock"})
    /\ state' = c.next
    /\ \E v \in Values :
        IF c.ok
        THEN /\ Sync(rmw_sync(t, try_fill_ordering.success))
             /\ Hold(t, "OptionGuard", FALSE, state)
             /\ Step(t, "fill", "try_fill", "Ok", v)
        ELSE /\ Sync(load_sync(t, try_fill_ordering.failure))
             /\ NoHold
             /\ Ret(t, "try_fill", "Err", v)
    /\ UNCHANGED <<kind, alive, slot, book>>

\* OptionGuard::new(self, false).replace(value) inside try_fill
ordered_fill_replace(t) ==
    /\ At(t, "fill")
    /\ slot' = val[t]
    /\ Sync(access_sync(t))
    /\ filled' = [filled EXCEPT ![t] = TRUE]
    /\ seen' = [seen EXCEPT ![t] = NoSeen]
    /\ Step(t, "release", op[t], "Ok", Uninit)
    /\ UNCHANGED <<kind, alive, state, guard, book>>

\* OptionGuard::replace: a write of the slot (and a read of the old value)
ordered_replace(t) ==
    /\ Holding(t, "OptionGuard")
    /\ \E v \in Values, old \in raced_read(t, slot) :
        LET r == replace(filled[t], old, v) IN
        /\ slot' = r.slot
        /\ filled' = [filled EXCEPT ![t] = r.is_some]
        /\ StepArg(t, "done", "replace", Option(r.some, r.prev), r.prev, v)
    /\ Sync(access_sync(t))
    /\ seen' = [seen EXCEPT ![t] = NoSeen]
    /\ UNCHANGED <<kind, alive, state, guard, book>>

\* OptionGuard::as_ref, and the deref of a MutexGuard: a read of the slot if
\* the guard's flag is set
ordered_as_ref(t) ==
    /\ At(t, "held") /\ guard[t] \in {"OptionGuard", "MutexGuard"}
    /\ \E s \in raced_read(t, slot) :
        LET r == as_ref(filled[t], s) IN
        Ret(t, "as_ref", Option(r.some, r.ref), r.ref)
    /\ IF filled[t] THEN Sync(access_sync(t)) ELSE UNCHANGED <<synced, published>>
    /\ UNCHANGED <<kind, alive, state, slot, guard, filled, seen, book>>

\* impl Drop for OptionGuard (a MutexGuard's drop ends in it):
\* store(AVAILABLE or FREE, Release)
ordered_drop(t) ==
    /\ Quiet /\ guard[t] \in {"OptionGuard", "MutexGuard"}
    /\ pc[t] \in {"held", "release"}
    /\ state' = drop_byte(filled[t])
    /\ Sync(store_sync(t, OptionGuard_drop_ordering))
    /\ Released(t)
    /\ UNCHANGED <<kind, alive, slot, book>>

\* is_locked (State::value), is_some_unlocked and is_none_unlocked (State == u8):
\* one load of the byte each
ordered_query(t) ==
    /\ CanCall(t, {"OptionLock"})
    /\ \/ /\ Sync(load_sync(t, State_value_ordering))
          /\ Ret(t, "is_locked", IF is_locked(state) THEN "true" ELSE "false", Uninit)
       \/ /\ Sync(load_sync(t, State_eq_ordering))
          /\ Ret(t, "is_some_unlocked",
                  IF is_some_unlocked(state) THEN "true" ELSE "false", Uninit)
       \/ /\ Sync(load_sync(t, State_eq_ordering))
          /\ Ret(t, "is_none_unlocked",
                  IF is_none_unlocked(state) THEN "true" ELSE "false", Uninit)
    /\ UNCHANGED <<kind, alive, state, slot, guard, filled, seen, book>>

OrderInit == Init /\ kind = "OptionLock"

OrderNext ==
    \E t \in Threads :
        \/ ordered_try_lock(t)
        \/ ordered_try_get(t)
        \/ ordered_try_lock_none(t)
        \/ ordered_try_fill(t)
        \/ ordered_fill_replace(t)
        \/ ordered_replace(t)
        \/ ordered_as_ref(t)
        \/ ordered_drop(t)
        \/ ordered_query(t)
        \/ Return(t)

OrderSpec == OrderInit /\ [][OrderNext]_vars

\* Threads keep running: a caller inside a call takes its next step, and a
\* caller holding a guard eventually leaves the guard's scope.
\* (Strong fairness, because a step is disabled for the instant in which another
\* caller's result is pending; on the code's own steps this is weak fairness.)
FairSpec ==
    /\ Spec
    /\ \A t \in Threads : SF_vars(Progress(t)) /\ SF_vars(guard_drop(t))

\* ------------------------------------------------------------ properties
Holders == {t \in Threads : guard[t] # "none"}

AcquireOps ==
    {"try_lock", "try_lock_arc", "try_lock_none", "try_lock_empty_arc", "try_get",
     "try_get_arc", "try_take", "try_fill", "try_fill_with", "spin_lock", "spin_get",
     "spin_lock_none", "spin_take"}

Returned(t, o) == pc[t] = "done" /\ op[t] = o

\* a MutexGuard whose destructor runs while its thread is panicking
Unwinding(t) == guard[t] = "MutexGuard" /\ panicking(t)

\* C1: mutual exclusion.  At most one guard is live at any instant; while a
\* guard is held the lock reads as locked, and a call by another caller that
\* returns at that instant did not acquire.
C1_MutualExclusion ==
    /\ Cardinality(Holders) <= 1
    /\ Holders # {} => is_locked(state)
    /\ \A t \in Threads :
        (pc[t] = "done" /\ op[t] \in AcquireOps /\ Holders \ {t} # {})
            => res[t] \in {"Unavailable", "FillState", "Err"}

\* one caller holds a guard and another's try_lock has just failed
C1_Witness ==
    \E t, u \in Threads :
        /\ t # u
        /\ guard[u] # "none"
        /\ Returned(t, "try_lock")
        /\ res[t] = "Unavailable"

\* C2: whenever the lock is unlocked, SOME is set iff the slot holds a live
\* value; and every guard release stores exactly FREE plus the guard's fill
\* flag, the flag being the slot's occupancy at that time (a MutexGuard whose
\* destructor first takes the value out stores FREE alone, its flag then false).
C2_Unlocked == (alive /\ ~is_locked(state)) => (is_some(state) <=> slot # Uninit)

C2_Release ==
    \A t \in Threads :
        guard_drop(t) =>
            /\ filled[t] <=> slot # Uninit
            /\ state' = FREE + (IF slot' # Uninit THEN SOME ELSE 0)
            /\ state' = AVAILABLE \/ state' = FREE
            /\ ~Unwinding(t) => state' = FREE + (IF filled[t] THEN SOME ELSE 0)
            /\ Unwinding(t) => state' = FREE

C2_StateSlot == [](C2_Unlocked) /\ [][C2_Release]_vars

\* a guard that took the value out has just been released: unlocked and empty
C2_Witness ==
    \E t \in Threads :
        /\ Returned(t, "drop")
        /\ seen[t] = NoSeen
        /\ state = FREE
        /\ slot = Uninit
        /\ filledBy = "new"

\* C3: on an initially empty OnceCell filled through get_or_init, exactly one
\* initializer is executed and every get_or_init that returns yields the value
\* that initializer produced.
C3_SingleInit ==
    (kind = "OnceCell" /\ filledBy \in {"none", "init"}) =>
        /\ initCount <= 1
        /\ \A t \in Threads :
            Returned(t, "get_or_init") =>
                /\ initCount = 1
                /\ res[t] = "Ok"
                /\ val[t] = InitVal(initBy)
                /\ val[t] = slot

\* a caller whose own initializer did not run returns the winner's value
C3_Witness ==
    \E t \in Threads :
        /\ Returned(t, "get_or_init")
        /\ initBy \notin {0, t}
        /\ val[t] = InitVal(initBy)

\* C4: every call to get_or_init eventually returns.
InGetOrInit(t) == op[t] = "get_or_init" /\ pc[t] # "done"

C4_EventuallyReturns ==
    \A t \in Threads : InGetOrInit(t) ~> Returned(t, "get_or_init")

\* C5: once an extract has drained the Mutex and its guard is released, a
\* try_lock made while no guard is held returns Poisoned and no try_lock
\* succeeds, and into_inner returns the poison error; a try_lock made while a
\* guard is held returns Unavailable.
IsMutexTryLock(t) ==
    \/ Mutex_try_lock(t) \/ Mutex_try_lock_arc(t)
    \/ Mutex_try_clone(t) \/ Mutex_try_copy(t)

C5_Step ==
    \A t \in Threads :
        /\ IsMutexTryLock(t) /\ Holders # {} => res'[t] = "Unavailable"
        /\ IsMutexTryLock(t) /\ extracted /\ Holders = {} => res'[t] = "Poisoned"
        /\ Mutex_into_inner(t) /\ extracted => res'[t] = "Poisoned"

C5_Poisoning == [][C5_Step]_vars

\* C5 as first stated: after the extract, every try_lock returns Poisoned
C5_OriginalStep ==
    \A t \in Threads :
        /\ IsMutexTryLock(t) /\ Holders # {} => res'[t] = "Unavailable"
        /\ IsMutexTryLock(t) /\ extracted => res'[t] = "Poisoned"
        /\ Mutex_into_inner(t) /\ extracted => res'[t] = "Poisoned"

C5_Original == [][C5_OriginalStep]_vars

\* a try_lock on the drained Mutex has just returned Poisoned
C5_Witness ==
    \E t \in Threads :
        /\ extracted
        /\ Returned(t, "Mutex_try_lock")
        /\ res[t] = "Poisoned"

\* C6: a Mutex loses its value only in extract or in a MutexGuard dropped
\* while its thread is panicking; every other release of a Mutex guard
\* republishes unlocked-and-filled, and the panicking drop publishes
\* unlocked-and-empty.
AfterExtract(t) == pc[t] = "release" /\ op[t] = "extract"

C6_Step ==
    /\ \A t \in Threads :
        /\ (kind = "Mutex" /\ MutexGuard_drop(t) /\ ~AfterExtract(t) /\ ~panicking(t))
              => state' = AVAILABLE /\ slot' = slot /\ slot # Uninit
        /\ (kind = "Mutex" /\ MutexGuard_drop(t) /\ panicking(t))
              => state' = FREE /\ slot' = Uninit
        /\ (kind = "Mutex" /\ MutexGuardArc_drop(t))
              => state' = AVAILABLE /\ slot' = slot /\ slot # Uninit
    /\ (kind = "Mutex" /\ alive' /\ slot # Uninit /\ slot' = Uninit)
          => \E t \in Threads :
                MutexGuard_extract(t) \/ (MutexGuard_drop(t) /\ panicking(t))

C6_OnlyExtractPoisons == [][C6_Step]_vars

\* C6 as first stated: on every exit path, unwinding included
C6_OriginalStep ==
    /\ \A t \in Threads :
        /\ (kind = "Mutex" /\ MutexGuard_drop(t) /\ ~AfterExtract(t))
              => state' = AVAILABLE
        /\ (kind = "Mutex" /\ MutexGuardArc_drop(t))
              => state' = AVAILABLE
    /\ (kind = "Mutex" /\ alive' /\ slot # Uninit /\ slot' = Uninit)
          => \E t \in Threads : MutexGuard_extract(t)

C6_Original == [][C6_OriginalStep]_vars

\* a Mutex guard has just been dropped at the end of its scope
C6_Witness ==
    \E t \in Threads :
        /\ kind = "Mutex"
        /\ Returned(t, "drop")
        /\ state = AVAILABLE
        /\ slot # Uninit

\* C7: Mutex::get_mut yields a reference to a slot holding a live value.
C7_GetMutLive ==
    \A t \in Threads : Returned(t, "Mutex_get_mut") => val[t] # Uninit

\* C8: under fair scheduling a locked lock eventually becomes unlocked again,
\* and the step in which a guard goes away always leaves the FREE bit set.
C8_ReleaseStep ==
    \A t \in Threads :
        (guard[t] # "none" /\ guard'[t] = "none") => ~is_locked(state')

C8_EventuallyUnlocked ==
    /\ is_locked(state) ~> ~is_locked(state)
    /\ [][C8_ReleaseStep]_vars

\* a guard has just been released and the lock reads as unlocked
C8_Witness ==
    \E t \in Threads :
        /\ Returned(t, "drop")
        /\ guard[t] = "none"
        /\ ~is_locked(state)

\* C9: a guard dropped without replace or take, other than a MutexGuard
\* dropped while its thread is panicking, leaves the byte exactly as it was
\* before the acquisition and the slot as it was, whatever the operation that
\* acquired it.
Untouched(t) == guard[t] # "none" /\ seen[t] # NoSeen

C9_Step ==
    \A t \in Threads :
        /\ (Untouched(t) /\ guard_drop(t) /\ ~Unwinding(t))
              => /\ state' = seen[t]
                 /\ seen[t] \in {FREE, AVAILABLE}
                 /\ slot' = slot
        /\ (Untouched(t) /\ seen'[t] = seen[t] /\ ~Unwinding(t)) => slot' = slot

C9_RoundTrip == [][C9_Step]_vars

\* C9 as first stated: for every guard dropped without replace or take
C9_OriginalStep ==
    \A t \in Threads :
        /\ (Untouched(t) /\ guard_drop(t))
              => /\ state' = seen[t]
                 /\ seen[t] \in {FREE, AVAILABLE}
                 /\ slot' = slot
        /\ (Untouched(t) /\ seen'[t] = seen[t]) => slot' = slot

C9_Original == [][C9_OriginalStep]_vars

\* an untouched guard over a filled lock was dropped: AVAILABLE again
C9_Witness ==
    \E t \in Threads :
        /\ Returned(t, "drop")
        /\ seen[t] = AVAILABLE
        /\ state = AVAILABLE
        /\ slot # Uninit
        /\ filledBy = "new"
        /\ kind = "OptionLock"

\* C10: try_lock succeeds exactly when the byte it replaced had FREE; the
\* guard's flag is the SOME bit of that byte; the SOME bit of the byte is left
\* as it was and FREE is cleared; the only error is Unavailable.
C10_Step ==
    \A t \in Threads :
        (try_lock(t) \/ try_lock_arc(t)) =>
            /\ res'[t] \in {"Ok", "Unavailable"}
            /\ res'[t] = "Ok" <=> state \in {FREE, AVAILABLE}
            /\ res'[t] = "Ok" =>
                /\ guard'[t] = "OptionGuard"
                /\ filled'[t] <=> state = AVAILABLE
            /\ res'[t] # "Ok" => guard'[t] = "none"
            /\ is_locked(state')
            /\ is_some(state') <=> is_some(state)
            /\ slot' = slot

C10_TryLock == [][C10_Step]_vars

\* try_lock on an unlocked empty lock returned an empty guard
C10_Witness ==
    \E t \in Threads :
        /\ Returned(t, "try_lock")
        /\ res[t] = "Ok"
        /\ guard[t] = "OptionGuard"
        /\ ~filled[t]
        /\ state = LOCKED_EMPTY

\* C11: try_get and try_take succeed exactly from AVAILABLE, moving the byte to
\* LOCKED_FILLED over a live slot; they return FillState exactly from the
\* unlocked empty byte and Unavailable exactly from a locked byte, changing
\* nothing; a successful try_take returns the value and leaves the lock
\* unlocked and empty.
C11_Step ==
    \A t \in Threads :
        (try_get(t) \/ try_take(t)) =>
            /\ res'[t] \in {"Ok", "FillState", "Unavailable"}
            /\ res'[t] = "Ok" <=> state = AVAILABLE
            /\ res'[t] = "FillState" <=> state = FREE
            /\ res'[t] = "Unavailable" <=> state \in {LOCKED_EMPTY, SOME}
            /\ res'[t] = "Ok" =>
                /\ state' = SOME
                /\ guard'[t] = "MutexGuard" /\ filled'[t]
                /\ slot # Uninit /\ slot' = slot
            /\ res'[t] # "Ok" =>
                /\ state' = state /\ slot' = slot
                /\ guard'[t] = "none" /\ pc'[t] = "done"

C11_Taken ==
    \A t \in Threads :
        (Returned(t, "try_take") /\ res[t] = "Ok") =>
            /\ val[t] # Uninit
            /\ state = FREE
            /\ slot = Uninit
            /\ guard[t] = "none"

C11_TryGet == [](C11_Taken) /\ [][C11_Step]_vars

\* try_take has just returned the value: the lock is unlocked and empty
C11_Witness ==
    \E t \in Threads :
        /\ Returned(t, "try_take")
        /\ res[t] = "Ok"
        /\ val[t] \in Values
        /\ state = FREE

\* C12: try_lock_none succeeds exactly from the unlocked empty byte, moving it
\* to LOCKED_EMPTY; it returns FillState exactly from AVAILABLE and Unavailable
\* exactly from a locked byte, changing nothing.
C12_Step ==
    \A t \in Threads :
        (try_lock_none(t) \/ try_lock_empty_arc(t)) =>
            /\ res'[t] \in {"Ok", "FillState", "Unavailable"}
            /\ res'[t] = "Ok" <=> state = FREE
            /\ res'[t] = "FillState" <=> state = AVAILABLE
            /\ res'[t] = "Unavailable" <=> state \in {LOCKED_EMPTY, SOME}
            /\ res'[t] = "Ok" =>
                /\ state' = LOCKED_EMPTY
                /\ guard'[t] = "OptionGuard" /\ ~filled'[t]
                /\ slot = Uninit /\ slot' = slot
            /\ res'[t] # "Ok" =>
                /\ state' = state /\ slot' = slot
                /\ guard'[t] = "none" /\ pc'[t] = "done"

C12_TryLockNone == [][C12_Step]_vars

\* try_lock_none on a filled unlocked lock has just returned FillState
C12_Witness ==
    \E t \in Threads :
        /\ Returned(t, "try_lock_none")
        /\ res[t] = "FillState"
        /\ state = AVAILABLE

\* C13: try_fill and OnceCell::set make one attempt.  From the unlocked empty
\* byte the call claims the lock, writes the given value, releases AVAILABLE
\* and returns Ok, nobody else touching the byte or the slot meanwhile; from
\* any other byte it returns Err with the given value at once, the byte and
\* the slot unchanged.
FillOps == {"try_fill", "set"}

InFill(t) == pc[t] \in {"fill", "release"} /\ op[t] \in FillOps

C13_Step ==
    \A t \in Threads :
        /\ (try_fill(t) \/ OnceCell_set(t)) =>
            /\ val'[t] \in Values
            /\ slot' = slot
            /\ IF state = FREE
               THEN /\ pc'[t] = "fill" /\ res'[t] = "Ok"
                    /\ state' = LOCKED_EMPTY
                    /\ guard'[t] = "OptionGuard" /\ slot = Uninit
               ELSE /\ pc'[t] = "done" /\ res'[t] = "Err"
                    /\ state' = state
                    /\ guard'[t] = "none"
        /\ (try_fill_replace(t) /\ op[t] \in FillOps) =>
            /\ slot' = val[t] /\ slot' \in Values
            /\ state' = state /\ pc'[t] = "release" /\ res'[t] = "Ok"
        /\ (guard_drop(t) /\ InFill(t)) =>
            /\ state' = AVAILABLE /\ slot' = slot
            /\ pc'[t] = "done" /\ res'[t] = "Ok"
        /\ (InFill(t) /\ pc'[t] = pc[t]) => (state' = state /\ slot' = slot)

C13_Filled ==
    \A t \in Threads :
        (pc[t] = "done" /\ op[t] \in FillOps) =>
            /\ res[t] \in {"Ok", "Err"}
            /\ res[t] = "Ok" => (state = AVAILABLE /\ slot \in Values)
            /\ res[t] = "Err" => val[t] \in Values
            /\ guard[t] = "none"

C13_TryFill == [](C13_Filled) /\ [][C13_Step]_vars

\* OnceCell::set on a cell that already has a value hands its value back
C13_Witness ==
    \E t \in Threads :
        /\ Returned(t, "set")
        /\ res[t] = "Err"
        /\ val[t] \in Values
        /\ val[t] # slot
        /\ state = AVAILABLE

\* C14: try_fill_with has three outcomes: Ok, from the unlocked empty byte;
\* Err(FillState), from the unlocked filled byte; Err(Unavailable), from a
\* locked byte.
C14_StepOk(t) ==
    /\ res'[t] = "Ok" <=> state = FREE
    /\ res'[t] = "Ok" <=> pc'[t] = "fill_with"
    /\ res'[t] # "Ok" => pc'[t] = "done"

C14_Step ==
    \A t \in Threads :
        try_fill_with(t) =>
            /\ C14_StepOk(t)
            /\ res'[t] \in {"Ok", "FillState", "Unavailable"}
            /\ res'[t] = "FillState" <=> state = AVAILABLE
            /\ res'[t] = "Unavailable" <=> state \in {LOCKED_EMPTY, SOME}

C14_Outcomes ==
    \A t \in Threads :
        Returned(t, "try_fill_with") => res[t] \in {"Ok", "FillState", "Unavailable"}

C14_FillWithErrors == [](C14_Outcomes) /\ [][C14_Step]_vars

\* C14 as first stated: every failure of try_fill_with is Unavailable
C14_OriginalStep ==
    \A t \in Threads :
        try_fill_with(t) =>
            /\ C14_StepOk(t)
            /\ res'[t] \in {"Ok", "Unavailable"}

C14_Original == [][C14_OriginalStep]_vars

\* try_fill_with on an unlocked filled lock has just returned FillState
C14_Witness ==
    \E t \in Threads :
        /\ Returned(t, "try_fill_with")
        /\ res[t] = "FillState"
        /\ state = AVAILABLE
        /\ slot # Uninit

\* C15: try_fill_with runs its initializer exactly when it claimed the lock on
\* an empty slot; otherwise the call returns with the byte and slot untouched;
\* the initializer runs with the lock held, and what it returned is the value
\* in the slot when the guard's release publishes AVAILABLE.
InFillWith(t) == pc[t] \in {"fill_with", "release"} /\ op[t] = "try_fill_with"

C15_Step ==
    \A t \in Threads :
        /\ try_fill_with(t) =>
            /\ pc'[t] = "fill_with" <=> (state = FREE /\ slot = Uninit)
            /\ pc'[t] = "fill_with" => (guard'[t] = "OptionGuard" /\ state' = LOCKED_EMPTY)
            /\ pc'[t] # "fill_with" =>
                /\ pc'[t] = "done" /\ res'[t] # "Ok"
                /\ state' = state /\ slot' = slot /\ guard'[t] = "none"
        /\ try_fill_with_replace(t) =>
            /\ guard[t] = "OptionGuard" /\ state = LOCKED_EMPTY /\ slot = Uninit
            /\ state' = state /\ slot' \in Values /\ pc'[t] = "release"
        /\ (guard_drop(t) /\ InFillWith(t)) =>
            /\ pc[t] = "release"
            /\ state' = AVAILABLE /\ slot' = slot /\ slot \in Values
            /\ pc'[t] = "done" /\ res'[t] = "Ok"
        /\ (InFillWith(t) /\ pc'[t] = pc[t]) => (state' = state /\ slot' = slot)
        /\ (slot' # slot /\ op[t] = "try_fill_with" /\ pc'[t] # pc[t]
              /\ \A u \in Threads \ {t} : pc'[u] = pc[u])
              => try_fill_with_replace(t)

C15_InitializerRuns == [][C15_Step]_vars

\* try_fill_with has just returned Ok: the initializer's value is published
C15_Witness ==
    \E t \in Threads :
        /\ Returned(t, "try_fill_with")
        /\ res[t] = "Ok"
        /\ state = AVAILABLE
        /\ slot \in Values

\* C16: write visibility across release.  try_lock on a filled lock yields a
\* filled guard over the same value, which a read through the guard returns;
\* replace(b) leaves b in the slot; the release publishes AVAILABLE over it;
\* try_take on that lock returns the slot's value and leaves the lock unlocked
\* and empty, where a further try_take fails.  Nobody but the holder changes
\* the byte or the slot while a guard is held.
C16_Step ==
    \A t \in Threads :
        /\ (try_lock(t) /\ state = AVAILABLE) =>
            /\ res'[t] = "Ok" /\ guard'[t] = "OptionGuard" /\ filled'[t]
            /\ slot' = slot /\ slot \in Values
        /\ (OptionGuard_as_ref(t) /\ filled[t]) =>
            /\ res'[t] = "Some" /\ val'[t] = slot /\ slot' = slot
        /\ OptionGuard_replace(t) =>
            /\ arg'[t] \in Values /\ slot' = arg'[t]
            /\ filled'[t] /\ state' = state
            /\ filled[t] => (res'[t] = "Some" /\ val'[t] = slot)
        /\ (OptionGuard_drop(t) /\ filled[t]) =>
            /\ state' = AVAILABLE /\ slot' = slot /\ slot \in Values
        /\ (try_take(t) /\ state = AVAILABLE) =>
            /\ pc'[t] = "extract" /\ slot' = slot /\ state' = SOME
        /\ (MutexGuard_extract(t) /\ op[t] = "try_take") =>
            /\ slot \in Values /\ val'[t] = slot /\ slot' = Uninit
        /\ (MutexGuard_drop(t) /\ op[t] = "try_take") =>
            /\ state' = FREE /\ slot' = Uninit
            /\ pc'[t] = "done" /\ res'[t] = "Ok" /\ val'[t] = val[t]
        /\ (try_take(t) /\ state = FREE) =>
            /\ pc'[t] = "done" /\ res'[t] = "FillState"
            /\ state' = FREE /\ slot' = slot
        /\ (guard[t] # "none" /\ pc'[t] = pc[t]) => (slot' = slot /\ state' = state)

C16_WriteVisibility == [][C16_Step]_vars

\* replace(b) on a guard over a different value a has returned a and left b
C16_Witness ==
    \E t \in Threads :
        /\ Returned(t, "replace")
        /\ guard[t] = "OptionGuard"
        /\ res[t] = "Some"
        /\ val[t] \in Values
        /\ val[t] # arg[t]
        /\ slot = arg[t]
        /\ filledBy = "new"

\* C17: no lost updates.  When every one of the threads once spin-acquires the
\* same filled lock, adds one to the integer in it and releases, then under
\* fair scheduling all the threads finish, the value is always the initial
\* value plus the number of threads that have incremented, and at the end it
\* is the initial value plus the number of threads, in every interleaving.
WorkersDone ==
    \A t \in Threads : t \in incremented /\ pc[t] = "idle" /\ guard[t] = "none"

C17_NoLostUpdates ==
    /\ <>[]WorkersDone
    /\ \A v \in Values :
        (slot = v) =>
            /\ [](slot = v + Cardinality(incremented))
            /\ [](WorkersDone => slot = v + NumThreads)
            /\ [](WorkersDone => state = AVAILABLE)

\* every worker has finished and the value has grown by the number of workers
C17_Witness ==
    /\ WorkersDone
    /\ incremented = Threads
    /\ slot > NumThreads
    /\ state = AVAILABLE

\* C18: guard round trip, on a borrowed or an Arc guard.  replace(v) returns
\* the previous value if the guard was filled and none otherwise, and a read
\* through the guard then yields v; take() followed by replace(v) leaves the
\* same flag, the same slot contents and the same byte at release as
\* replace(v) alone.
OptionGuards == {"OptionGuard", "OptionGuardArc"}

GuardReplace(g, f, s, v) ==
    IF g = "OptionGuardArc" THEN arc_replace(f, s, v) ELSE replace(f, s, v)

GuardTake(g, f, s) == IF g = "OptionGuardArc" THEN arc_take(f, s) ELSE take(f, s)

GuardAsRef(g, f, s) == IF g = "OptionGuardArc" THEN arc_as_ref(f, s) ELSE as_ref(f, s)

RoundTrip(g, f, s, v) ==
    LET one == GuardReplace(g, f, s, v)
        taken == GuardTake(g, f, s)
        two == GuardReplace(g, taken.is_some, taken.slot, v)
        read == GuardAsRef(g, one.is_some, one.slot)
    IN /\ one.some = f
       /\ one.prev = (IF f THEN s ELSE Uninit)
       /\ read.some /\ read.ref = v
       /\ taken.some = f /\ ~taken.is_some
       /\ two.is_some = one.is_some
       /\ two.slot = one.slot
       /\ drop_byte(two.is_some) = drop_byte(one.is_some)
       /\ drop_byte(one.is_some) = AVAILABLE

C18_Algebra ==
    \A t \in Threads :
        (pc[t] = "held" /\ guard[t] \in OptionGuards) =>
            \A v \in Values : RoundTrip(guard[t], filled[t], slot, v)

C18_Step ==
    \A t \in Threads :
        /\ (OptionGuard_replace(t) \/ OptionGuardArc_replace(t)) =>
            /\ res'[t] = (IF filled[t] THEN "Some" ELSE "None")
            /\ val'[t] = (IF filled[t] THEN slot ELSE Uninit)
            /\ arg'[t] \in Values /\ slot' = arg'[t] /\ filled'[t]
        /\ (OptionGuard_take(t) \/ OptionGuardArc_take(t)) =>
            /\ res'[t] = (IF filled[t] THEN "Some" ELSE "None")
            /\ val'[t] = (IF filled[t] THEN slot ELSE Uninit)
            /\ ~filled'[t] /\ slot' = Uninit
        /\ (OptionGuard_as_ref(t) \/ OptionGuardArc_as_ref(t)) =>
            /\ res'[t] = (IF filled[t] THEN "Some" ELSE "None")
            /\ val'[t] = (IF filled[t] THEN slot ELSE Uninit)
            /\ slot' = slot /\ filled'[t] = filled[t]

C18_GuardRoundTrip == [](C18_Algebra) /\ [][C18_Step]_vars

\* replace(v) on an empty Arc guard has returned none and left v in the slot
C18_Witness ==
    \E t \in Threads :
        /\ Returned(t, "replace")
        /\ guard[t] = "OptionGuardArc"
        /\ res[t] = "None"
        /\ filled[t]
        /\ slot = arg[t]
        /\ slot \in Values

\* C19: in every reachable state exactly one of is_locked, is_some_unlocked
\* and is_none_unlocked is true; a freshly constructed empty lock reports
\* is_none_unlocked and a freshly constructed filled lock is_some_unlocked.
Queries(s) ==
    {q \in {"is_locked", "is_some_unlocked", "is_none_unlocked"} :
        CASE q = "is_locked" -> is_locked(s)
          [] q = "is_some_unlocked" -> is_some_unlocked(s)
          [] q = "is_none_unlocked" -> is_none_unlocked(s)}

C19_Fresh ==
    /\ slot = Uninit => Queries(state) = {"is_none_unlocked"}
    /\ slot # Uninit => Queries(state) = {"is_some_unlocked"}

C19_Partition ==
    /\ C19_Fresh
    /\ [](Cardinality(Queries(state)) = 1)
    /\ [](Holders # {} => Queries(state) = {"is_locked"})

\* a guard is held over a filled slot: only is_locked is true
C19_Witness ==
    /\ state = SOME
    /\ Holders # {}
    /\ Queries(state) = {"is_locked"}

\* C20: failed fallible initialisation.  When the initializer passed to
\* get_or_try_init returns an error, the error goes to the caller that ran it
\* and to no other caller, nothing is written to the slot, and the guard's
\* release leaves the cell unlocked and empty: the caller returns the error, and
\* the next get_or_try_init, get_or_init or set that reaches the cell while it is
\* still empty claims it.
InitErrOf(t) == res[t] = "InitErr"

C20_Failed ==
    \A t \in Threads :
        InitErrOf(t) =>
            /\ op[t] = "get_or_try_init"
            /\ pc[t] \in {"release", "done"}
            /\ pc[t] = "release" =>
                /\ guard[t] = "OptionGuard" /\ ~filled[t]
                /\ state = LOCKED_EMPTY /\ slot = Uninit
            /\ pc[t] = "done" => guard[t] = "none" /\ val[t] = Uninit

C20_Step ==
    \A t \in Threads :
        /\ (~InitErrOf(t) /\ res'[t] = "InitErr") =>
            /\ pc[t] = "once_init" /\ op[t] = "get_or_try_init"
            /\ guard[t] = "OptionGuard"
            /\ UNCHANGED <<state, slot, filledBy, initCount>>
            /\ \A u \in Threads \ {t} : res'[u] = res[u] /\ res'[u] # "InitErr"
        /\ (InitErrOf(t) /\ pc[t] = "release" /\ pc'[t] # "release") =>
            /\ pc'[t] = "done" /\ res'[t] = "InitErr"
            /\ state' = FREE /\ slot' = Uninit
            /\ is_none_unlocked(state')
            /\ UNCHANGED <<filledBy, initCount>>
        /\ (initFailed /\ is_none_unlocked(state) /\ pc[t] = "once_lock"
              /\ pc'[t] # "once_lock") =>
            /\ pc'[t] = "once_init" /\ guard'[t] = "OptionGuard"
        /\ (initFailed /\ is_none_unlocked(state) /\ pc[t] = "idle"
              /\ pc'[t] # "idle" /\ op'[t] = "set") =>
            /\ pc'[t] = "fill" /\ res'[t] = "Ok" /\ guard'[t] = "OptionGuard"

C20_FailedInit == [](C20_Failed) /\ [][C20_Step]_vars

\* a get_or_try_init has just returned its initializer's error: the cell is
\* unlocked and empty
C20_Witness ==
    \E t \in Threads :
        /\ Returned(t, "get_or_try_init") /\ InitErrOf(t)
        /\ initFailed
        /\ state = FREE /\ slot = Uninit
        /\ Holders = {}

\* C21: write-once.  Once a OnceCell is unlocked and filled, no step of get,
\* get_or_init, get_or_try_init, set or is_locked by any caller changes the
\* stored value or the state byte, for as long as the cell exists (into_inner
\* and the cell's destruction take the whole cell); a value in the slot is never
\* overwritten,
\* and the slot is only ever written while it is empty and claimed, so the cell
\* goes from empty to filled at most once.
OnceCellFilled == kind = "OnceCell" /\ alive /\ is_some_unlocked(state)

C21_Step ==
    (kind = "OnceCell" /\ alive') =>
        /\ OnceCellFilled => (state' = state /\ slot' = slot)
        /\ slot # Uninit => slot' = slot
        /\ slot' # slot => (state = LOCKED_EMPTY /\ state' = state)
        /\ (is_some(state') /\ ~is_some(state)) => (slot' = slot /\ slot # Uninit)

C21_WriteOnce ==
    /\ [](OnceCellFilled => slot # Uninit)
    /\ [][C21_Step]_vars

\* a set on a filled cell has just been turned down, and the cell is as it was
C21_Witness ==
    /\ OnceCellFilled
    /\ filledBy \in {"init", "set"}
    /\ \E t \in Threads : Returned(t, "set") /\ res[t] = "Err" /\ val[t] # slot

\* C22: Lazy runs its stored initializer at most once.  The initializer is taken
\* out of the init cell and called only by the caller holding the guard on the
\* empty, claimed cell; it is never called a second time, also not after it
\* panicked; and every force that returns yields the value that one call
\* produced.
LazyHolder(t) ==
    /\ guard[t] = "OptionGuard" /\ ~filled[t]
    /\ state = LOCKED_EMPTY /\ slot = Uninit

C22_Once ==
    kind = "Lazy" =>
        /\ initCount <= 1
        /\ init => initCount = 0
        /\ \A t \in Threads :
            /\ pc[t] = "lazy_call" => (LazyHolder(t) /\ ~init /\ initCount = 0)
            /\ Returned(t, "force") =>
                /\ res[t] = "Ok"
                /\ initCount = 1 /\ initBy # 0
                /\ val[t] = InitVal(initBy) /\ val[t] = slot
                /\ is_some(state)

C22_Step ==
    kind = "Lazy" =>
        /\ init' # init =>
            \E t \in Threads : pc[t] = "once_init" /\ LazyHolder(t) /\ pc'[t] = "lazy_call"
        /\ initCount' # initCount =>
            \E t \in Threads : pc[t] = "lazy_call" /\ LazyHolder(t) /\ initBy' = t

C22_LazyOnce == [](C22_Once) /\ [][C22_Step]_vars

\* a force by a caller that did not run the initializer has just returned the
\* value the initializer produced
C22_Witness ==
    /\ kind = "Lazy"
    /\ \E t \in Threads :
        /\ Returned(t, "force") /\ res[t] = "Ok"
        /\ initBy \notin {0, t}
        /\ val[t] = InitVal(initBy)

\* C23: Mutex::spin_lock returns a guard over a filled slot or the poison error.
\* On a poisoned Mutex (unlocked and empty) its try claims the lock, it returns
\* the poison error, and the temporary guard's release leaves the Mutex
\* unlocked and empty; with nobody else on the Mutex it returns rather than
\* waiting for a value; it never returns a guard whose slot is empty.
InMutexSpinLock(t) == op[t] = "Mutex_spin_lock" /\ pc[t] # "done"

Alone(t) == \A u \in Threads \ {t} : pc[u] = "idle" /\ guard[u] = "none"

C23_Returned ==
    \A t \in Threads :
        Returned(t, "Mutex_spin_lock") =>
            /\ res[t] \in {"Ok", "Poisoned"}
            /\ res[t] = "Ok" =>
                /\ guard[t] = "MutexGuard" /\ filled[t]
                /\ slot # Uninit /\ state = SOME
            /\ res[t] = "Poisoned" =>
                /\ guard[t] = "none"
                /\ slot = Uninit /\ is_none_unlocked(state)

C23_Step ==
    \A t \in Threads :
        /\ (kind = "Mutex" /\ is_none_unlocked(state) /\ Mutex_spin_lock(t)) =>
            /\ pc'[t] = "mutex_check" /\ state' = LOCKED_EMPTY
            /\ guard'[t] = "OptionGuard" /\ ~filled'[t]
        /\ (pc[t] = "mutex_check" /\ ~filled[t] /\ pc'[t] # pc[t]) =>
            /\ pc'[t] = "release" /\ res'[t] = "Poisoned"
            /\ UNCHANGED <<state, slot>>
        /\ (pc[t] = "release" /\ op[t] = "Mutex_spin_lock" /\ pc'[t] # pc[t]) =>
            /\ pc'[t] = "done" /\ res'[t] = "Poisoned"
            /\ state' = FREE /\ slot' = Uninit

C23_SpinLock ==
    /\ [](C23_Returned)
    /\ [][C23_Step]_vars
    /\ \A t \in Threads :
        [](Alone(t)) => (InMutexSpinLock(t) ~> Returned(t, "Mutex_spin_lock"))

\* spin_lock on a poisoned Mutex has just returned the poison error
C23_Witness ==
    \E t \in Threads :
        /\ kind = "Mutex"
        /\ Returned(t, "Mutex_spin_lock") /\ res[t] = "Poisoned"
        /\ is_none_unlocked(state)

\* C24: value linearity.  A value in the slot leaves it exactly once: handed
\* back to a caller (take, extract, try_take, spin_take, the previous value of
\* replace, into_inner), destroyed with the unguarded lock, or destroyed by a
\* MutexGuard dropped while its thread is panicking.  Nothing reads or destroys
\* a dead slot, nothing overwrites a live value without handing it back, a
\* destroyed lock leaves no value behind, and destroying an empty lock destroys
\* nothing.
HandBackOps ==
    {"take", "extract", "try_take", "spin_take", "into_inner", "Mutex_into_inner"}

\* the step hands the slot's value to caller t
HandedBack(t) ==
    /\ op'[t] \in HandBackOps
    /\ res'[t] \in {"Some", "Ok"}
    /\ val'[t] = slot

\* the step destroys the slot's value together with the unguarded lock
DestroyedWithLock(t) ==
    /\ op'[t] = "drop_lock" /\ res'[t] = "Dropped" /\ val'[t] = slot
    /\ alive /\ ~alive' /\ Holders = {}

\* the step is the destructor of a MutexGuard of a panicking thread
DestroyedUnwinding(t) == MutexGuard_drop(t) /\ panicking(t)

\* caller t's position changes in this step, to a call of o
Moves(t, o) == <<pc'[t], op'[t]>> # <<pc[t], op[t]>> /\ op'[t] \in o

C24_Live ==
    /\ \A t \in Threads : guard[t] # "none" => (filled[t] <=> slot # Uninit)
    /\ (Holders = {} /\ alive) => (is_some(state) <=> slot # Uninit)
    /\ ~alive => slot = Uninit

C24_Frame ==
    /\ (slot # Uninit /\ slot' # slot /\ slot' # Uninit) =>
        \E t \in Threads : op'[t] = "replace" /\ res'[t] = "Some" /\ val'[t] = slot
    /\ (slot = Uninit /\ slot' # Uninit) =>
        \E t \in Threads : guard[t] # "none" /\ ~filled[t] /\ filled'[t]
    /\ \A t \in Threads :
        /\ (Moves(t, HandBackOps \cup {"replace"}) /\ res'[t] \in {"Some", "Ok"}
              /\ pc'[t] \in {"done", "release"} /\ pc[t] \in {"held", "extract", "idle"}) =>
            /\ slot # Uninit /\ val'[t] = slot
            /\ op'[t] # "replace" => slot' = Uninit
        /\ Moves(t, {"drop_lock"}) =>
            /\ ~alive' /\ slot' = Uninit
            /\ res'[t] = "Dropped" <=> slot # Uninit
            /\ res'[t] = "None" <=> slot = Uninit

C24_Step ==
    /\ C24_Frame
    /\ (slot # Uninit /\ slot' = Uninit) =>
        \E t \in Threads :
            /\ HandedBack(t) \/ DestroyedWithLock(t) \/ DestroyedUnwinding(t)
            /\ ~(HandedBack(t) /\ DestroyedWithLock(t))
            /\ ~(HandedBack(t) /\ DestroyedUnwinding(t))
            /\ ~(DestroyedWithLock(t) /\ DestroyedUnwinding(t))

C24_Linearity == [](C24_Live) /\ [][C24_Step]_vars

\* C24 as first stated: a value leaves the slot only handed back to a caller or
\* destroyed with the unguarded lock
C24_OriginalStep ==
    /\ C24_Frame
    /\ (slot # Uninit /\ slot' = Uninit) =>
        \E t \in Threads : HandedBack(t) \/ DestroyedWithLock(t)

C24_Original == [](C24_Live) /\ [][C24_OriginalStep]_vars

\* the unguarded lock has just been destroyed, and the value it held with it
C24_Witness ==
    \E t \in Threads :
        /\ Returned(t, "drop_lock") /\ res[t] = "Dropped"
        /\ ~alive /\ slot = Uninit
        /\ val[t] # Uninit

\* C25: a get_or_try_init caller left busy-waiting by a competitor whose
\* initializer failed returns Ok with the value once a later attempt has filled
\* the cell.
WaitingInTryInit(t) ==
    /\ op[t] = "get_or_try_init"
    /\ pc[t] \in {"once_wait", "once_spin", "once_loop"}

C25_WaiterReturns ==
    \A t \in Threads :
        (WaitingInTryInit(t) /\ initFailed /\ OnceCellFilled)
            ~> (Returned(t, "get_or_try_init") /\ res[t] = "Ok" /\ val[t] = slot)

\* C26: Arc-based acquisition keeps the lock held from the claim until the Arc
\* guard is dropped.  The conversion of the borrowed guard stores nothing and
\* hands its fill flag to the Arc guard; while the Arc guard exists the byte
\* changes only in that guard's destructor, which stores unlocked plus the
\* guard's current fill flag, always filled for a MutexGuardArc.
ArcGuards == {"OptionGuardArc", "MutexGuardArc"}

ArcOps == {"try_lock_arc", "try_lock_empty_arc", "try_get_arc", "Mutex_try_lock_arc"}

\* caller t has claimed the lock through an Arc and not yet released it
ArcHeld(t) == pc[t] = "arc_new" \/ guard[t] \in ArcGuards

C26_Held ==
    \A t \in Threads :
        /\ ArcHeld(t) => (is_locked(state) /\ Holders = {t})
        /\ pc[t] = "arc_new" => (op[t] \in ArcOps /\ guard[t] \in {"OptionGuard", "MutexGuard"})
        /\ guard[t] = "MutexGuardArc" => (filled[t] /\ slot # Uninit)
        /\ (Returned(t, "try_lock_empty_arc") /\ res[t] = "Ok") =>
              (guard[t] = "OptionGuardArc" /\ ~filled[t] /\ state = LOCKED_EMPTY)

C26_Step ==
    \A t \in Threads :
        /\ (pc[t] = "arc_new" /\ pc'[t] # pc[t]) =>
            /\ guard'[t] \in ArcGuards
            /\ (guard[t] = "MutexGuard") <=> (guard'[t] = "MutexGuardArc")
            /\ filled'[t] = filled[t]
            /\ UNCHANGED <<state, slot>>
        /\ (ArcHeld(t) /\ state' # state) =>
            /\ guard[t] \in ArcGuards /\ guard'[t] = "none"
        /\ (guard[t] \in ArcGuards /\ guard'[t] # guard[t]) =>
            /\ guard'[t] = "none"
            /\ state' = BitOr(FREE, IF filled[t] THEN SOME ELSE 0)
            /\ guard[t] = "MutexGuardArc" => state' = AVAILABLE
            /\ slot' = slot

C26_ArcHeld == [](C26_Held) /\ [][C26_Step]_vars

\* an Arc guard claimed on the empty lock holds a value put in by replace while
\* the byte still reads locked-and-empty
C26_Witness ==
    \E t \in Threads :
        /\ guard[t] = "OptionGuardArc" /\ pc[t] = "held"
        /\ filled[t] /\ slot # Uninit
        /\ state = LOCKED_EMPTY

\* C27: producer/consumer hand-off without deadlock.  One producer puts
\* NumThreads values into the initially empty lock (spin_lock_none, replace,
\* release) and NumThreads consumers call spin_take once each: under fair
\* scheduling every thread terminates, every produced value is received by
\* exactly one consumer, and the lock ends unlocked and empty.
Received == {t \in Consumers : op[t] = "spin_take" /\ val[t] # Uninit}

HandoffDone ==
    /\ round = NumThreads
    /\ pc[Producer] = "idle" /\ guard[Producer] = "none"
    /\ \A t \in Consumers : pc[t] = "finished" /\ guard[t] = "none"
    /\ {val[t] : t \in Consumers} = 1..NumThreads
    /\ state = FREE /\ slot = Uninit

C27_NoDuplicate ==
    /\ \A t, u \in Received : t # u => val[t] # val[u]
    /\ \A t \in Received : val[t] \in 1..round
    /\ Cardinality(Received) + (IF slot # Uninit THEN 1 ELSE 0) = round

C27_Handoff == <>[]HandoffDone /\ [](C27_NoDuplicate)

\* every thread has ended and each consumer holds a different produced value
C27_Witness == HandoffDone /\ Cardinality(Received) = NumThreads

\* C28: spin acquisition is not starvation-free.  Nothing in the lock orders
\* the callers.  There is a round of steps that starts and ends with the lock
\* free and a caller waiting inside spin_lock, in which the waiter polls
\* is_locked, sees the lock free and goes to try, a try_lock that arrives after
\* it takes the lock first, the waiter's try fails and sends it back to
\* polling, and the holder releases.  Every step of the round is a step the
\* code can take in the state before it, and the round can be taken with any
\* of the other callers as the one that overtakes, so repeating it for ever,
\* with each of the others in turn, is an execution in which every thread
\* takes infinitely many steps and the waiter never acquires.
Waiting(p) ==
    /\ op[Victim] = "spin_lock" /\ guard[Victim] = "none" /\ pc[Victim] = p

\* every other caller but u is between calls and holds nothing
Bystanders(u) == \A w \in Others \ {u} : pc[w] = "idle" /\ guard[w] = "none"

\* the lock is free, nobody holds a guard, the waiter is about to poll
StarvePoll ==
    /\ Waiting("spin_wait") /\ ~is_locked(state)
    /\ \A w \in Others : pc[w] = "idle" /\ guard[w] = "none"

\* the waiter has seen the lock free and is about to try
StarveTry ==
    /\ Waiting("spin_try") /\ ~is_locked(state)
    /\ \A w \in Others : pc[w] = "idle" /\ guard[w] = "none"

\* u, who arrived later, has just taken the lock ahead of the waiter
StarveOvertaken(u) ==
    /\ Waiting("spin_try") /\ is_locked(state)
    /\ Returned(u, "try_lock") /\ res[u] = "Ok" /\ guard[u] = "OptionGuard"
    /\ Bystanders(u)

\* u holds the guard and the waiter is about to try
StarveHeld(u) ==
    /\ Waiting("spin_try") /\ is_locked(state)
    /\ pc[u] = "held" /\ guard[u] = "OptionGuard"
    /\ Bystanders(u)

\* the waiter's try has failed while u holds the guard
StarveFailed(u) ==
    /\ Waiting("spin_wait") /\ is_locked(state)
    /\ pc[u] = "held" /\ guard[u] = "OptionGuard"
    /\ Bystanders(u)

\* u has released and its drop returns
StarveReleased(u) ==
    /\ Waiting("spin_wait") /\ ~is_locked(state)
    /\ pc[u] = "done" /\ guard[u] = "none"
    /\ Bystanders(u)

C28_Starvation ==
    /\ StarvePoll => ENABLED (spin_wait(Victim) /\ StarveTry')
    /\ StarveTry => \A u \in Others : ENABLED (try_lock(u) /\ StarveOvertaken(u)')
    /\ \A u \in Others :
        /\ StarveOvertaken(u) => ENABLED (Return(u) /\ StarveHeld(u)')
        /\ StarveHeld(u) => ENABLED (victim_spin_lock /\ StarveFailed(u)')
        /\ StarveFailed(u) => ENABLED (OptionGuard_drop(u) /\ StarveReleased(u)')
        /\ StarveReleased(u) => ENABLED (Return(u) /\ StarvePoll')

\* the waiter has seen the lock unlocked and is about to try, and a try_lock
\* that arrived after it has just taken the lock
C28_Witness == \E u \in Others : StarveOvertaken(u)

\* the waiter eventually acquires: the round above, repeated, is a fair
\* execution in which it does not
C28_Acquires == <>(guard[Victim] # "none")

\* C29: failed acquisitions have no effect.  A try_lock, try_lock_none, try_get,
\* try_take, try_clone, try_copy, try_fill or try_fill_with that returns an
\* error (also as the failed try inside a spin variant) leaves the state byte,
\* the slot and every guard exactly as they were; a failed try_fill hands its
\* value back.
TryOps ==
    {"try_lock", "try_lock_none", "try_get", "try_take", "try_clone", "try_copy",
     "try_fill", "try_fill_with", "try_lock_arc", "try_lock_empty_arc", "try_get_arc",
     "spin_lock", "spin_lock_none", "spin_get", "spin_take"}

AcquireErrors == {"Unavailable", "FillState", "Err"}

\* caller t's acquisition attempt fails in this step
FailedTry(t) ==
    /\ pc[t] \in {"idle", "spin_try"}
    /\ pc'[t] # pc[t]
    /\ op'[t] \in TryOps
    /\ res'[t] \in AcquireErrors

C29_Step ==
    \A t \in Threads :
        FailedTry(t) =>
            /\ UNCHANGED <<state, slot, guard, filled, seen>>
            /\ guard[t] = "none"
            /\ res'[t] = "Err" => (op'[t] = "try_fill" /\ val'[t] \in Values)
            /\ is_locked(state) => res'[t] \in {"Unavailable", "Err"}
            /\ ~is_locked(state) => res'[t] \in {"FillState", "Err"}

C29_FailedNoEffect == [][C29_Step]_vars

\* a try_clone has just been turned down by a held lock, whose holder has
\* changed the value under its guard
C29_Witness ==
    \E t, u \in Threads :
        /\ Returned(t, "try_clone") /\ res[t] = "Unavailable"
        /\ guard[u] = "OptionGuard" /\ filled[u]
        /\ state = LOCKED_EMPTY

\* C30: the byte of a OnceCell is never locked-and-filled.  Whatever get,
\* get_or_init, get_or_try_init and set do, the SOME bit is set only in the
\* unlocked-and-filled byte, so OnceCell::get, which tests the SOME bit alone,
\* returns a reference only to a completely written value of an unlocked cell,
\* and returns none while an initialization holds the cell.
C30_NeverLockedFilled ==
    (kind = "OnceCell" /\ alive) =>
        /\ state # SOME
        /\ state \in {FREE, LOCKED_EMPTY, AVAILABLE}
        /\ is_some(state) => (is_some_unlocked(state) /\ slot # Uninit /\ Holders = {})
        /\ \A t \in Threads :
            Returned(t, "get") =>
                /\ res[t] = "Some" => (val[t] = slot /\ slot # Uninit /\ Holders = {})
                /\ res[t] = "None" => (val[t] = Uninit /\ ~is_some(state))
                /\ Holders # {} => res[t] = "None"

\* an initializer has written its value and not yet released the cell, and a
\* get at this instant returns none
C30_Witness ==
    \E t, u \in Threads :
        /\ kind = "OnceCell"
        /\ Returned(t, "get") /\ res[t] = "None"
        /\ guard[u] = "OptionGuard" /\ filled[u] /\ slot # Uninit
        /\ state = LOCKED_EMPTY

\* C31: owned access never touches a dead slot.  Whenever get_mut, into_inner,
\* the owned replace or take, or the destructor of an OptionLock reads or
\* destroys the slot (it found the SOME bit set), the slot holds a live value,
\* whatever guard operations came before, a leaked guard included.
OwnedOps == {"get_mut", "into_inner", "owned_replace", "owned_take", "drop_lock"}

\* caller t's owned operation ran in this step and went into the slot
OwnedTouch(t) ==
    /\ pc[t] = "idle" /\ pc'[t] = "done"
    /\ op'[t] \in OwnedOps
    /\ res'[t] \in {"Some", "Dropped"}

C31_Step == \A t \in Threads : OwnedTouch(t) => slot # Uninit

C31_OwnedLive == [][C31_Step]_vars

\* C32: claims synchronize with the previous holder's release.  Whoever holds
\* a guard is ordered after every earlier access to the slot, so that what it
\* reads through the guard is what the slot holds; the queries is_locked,
\* is_some_unlocked and is_none_unlocked hand out no guard and no value.
QueryOps == {"is_locked", "is_some_unlocked", "is_none_unlocked"}

C32_Synchronized ==
    /\ \A t \in Threads : guard[t] # "none" => t \in synced
    /\ \A t \in Threads :
        Returned(t, "as_ref") =>
            /\ res[t] = "Some" => val[t] = slot
            /\ res[t] = "None" => val[t] = Uninit
    /\ \A t \in Threads :
        (pc[t] = "done" /\ op[t] \in QueryOps) =>
            (guard[t] = "none" /\ val[t] = Uninit /\ res[t] \in {"true", "false"})

====
